---- MODULE Spec2Model ----
(***************************************************************************)
(* A model of the viz runner (src/viz/code/viz_runner.py): the dependency  *)
(* resolver, the assembler of the pruned notebook, the import              *)
(* deduplicator and the savefig injector.                                  *)
(*                                                                         *)
(* Text is modelled line by line.  A line is a record                      *)
(*     [ind |-> number of leading blanks, toks |-> sequence of tokens]     *)
(* where a token is a maximal run of word characters (an identifier or a   *)
(* keyword), a dotted module path, or one punctuation mark.  A line with   *)
(* no token is a blank (whitespace-only) line.  Every line carries its     *)
(* own newline, as the elements of str.splitlines(keepends=True) do.       *)
(***************************************************************************)
EXTENDS Integers, Sequences, FiniteSets, TLC

VARIABLES
    mode,               \* which entry point this behaviour exercises
    pc,                 \* position inside that entry point
    parsed,             \* ParsedNotebook
    target_vars,        \* list[str] handed to prepare_notebook
    target_line,        \* int | None (None is NoLine)
    plot_code,          \* the action code, a sequence of lines
    queue,              \* get_required_cells: the work list
    visited_vars,       \* get_required_cells: visited variables
    required_indices,   \* get_required_cells: set of cell indices
    required_functions, \* get_required_cells: set of function names
    result,             \* what get_required_cells returned
    prep,               \* what prepare_notebook returned
    outcome,            \* what the caller of prepare_notebook ended with
    asm,                \* arguments of a direct assemble_pruned_notebook call
    action_code,        \* strip_imports_from_action_code: its first argument
    setup_imports,      \* strip_imports_from_action_code: keys of the dict
    stripped,           \* strip_imports_from_action_code: what it returned
    script,             \* inject_savefig: its first argument
    modified,           \* inject_savefig: what it returned
    again,              \* inject_savefig: what a second pass over modified returned
    pyenv,              \* get_python_command: VIZ_PYTHON_CMD, cwd, markers, probes' fate
    python_cmd,         \* get_python_command: what it returned
    fs,                 \* the files of VIZ_DIR: a set of << name, writer >>
    frames,             \* run_plot / poll_for_file: the locals of each invocation
    child,              \* the process each invocation launched
    runs,               \* the plot runs of a session, in order
    clock               \* datetime.now(), in seconds

vars == << mode, pc, parsed, target_vars, target_line, plot_code, queue,
           visited_vars, required_indices, required_functions, result, prep,
           outcome, asm, action_code, setup_imports, stripped, script,
           modified, again, pyenv, python_cmd, fs, frames, child, runs,
           clock >>

resolverVars == << parsed, target_vars, target_line, plot_code, queue,
                   visited_vars, required_indices, required_functions,
                   result, prep >>
stripVars == << action_code, setup_imports, stripped >>
savefigVars == << script, modified, again >>
pythonVars == << pyenv, python_cmd >>
runVars == << fs, frames, child, runs, clock >>

(***************************************************************************)
(* Bounds of the model.                                                    *)
(***************************************************************************)
NumCells == 3
MaxTargets == 2
MaxActionLines == 2
MaxScriptLines == 4

(***************************************************************************)
(* Generic helpers on sequences and sets.                                  *)
(***************************************************************************)
Range(s) == { s[i] : i \in DOMAIN s }

Last(s) == s[Len(s)]

Front(s) == SubSeq(s, 1, Len(s) - 1)

RECURSIVE Flatten(_)
Flatten(ss) == IF ss = << >> THEN << >> ELSE Head(ss) \o Flatten(Tail(ss))

RECURSIVE SeqsUpTo(_, _)
SeqsUpTo(S, n) ==
    IF n = 0 THEN { << >> }
    ELSE LET shorter == SeqsUpTo(S, n - 1)
         IN  shorter \cup { Append(s, x) : s \in shorter, x \in S }

NoLine == -1
None == "None"

L(ind, toks) == [ind |-> ind, toks |-> toks]

BlankLine == L(0, << >>)

IsBlank(line) == line.toks = << >>

(***************************************************************************)
(* Substring tests on text.  Python's `name in text` is a test on          *)
(* characters; an identifier can only occur inside one token, so it is a   *)
(* test on tokens, decided by the table of the proper substrings among     *)
(* the tokens this model uses.                                             *)
(***************************************************************************)
ProperSubstrings ==
    { <<"clean", "clean_df">>, <<"df", "clean_df">>, <<"return", "returns">>,
      <<"matplotlib", "matplotlib.pyplot">>,
      <<"=", "==">> }

Contains(tok, name) == tok = name \/ <<name, tok>> \in ProperSubstrings

LineContains(line, name) == \E i \in DOMAIN line.toks : Contains(line.toks[i], name)

TextContains(lines, name) == \E i \in DOMAIN lines : LineContains(lines[i], name)

Punct == { "@", ".", "(", ")", ":", ",", "=", "==", ";", "*", "#", "'copy'",
           "'__main__'", "..." }

DottedToks == { "os.path", "matplotlib.pyplot" }

\* \w+ : a token made of word characters only
IsWord(tok) == tok \notin Punct /\ tok \notin DottedToks

\* [\w.]+ : a token made of word characters and dots only
IsDotted(tok) == IsWord(tok) \/ tok \in DottedToks \/ tok = "."

CountTok(line, tok) == Cardinality({ i \in DOMAIN line.toks : line.toks[i] = tok })

(***************************************************************************)
(* The parsed notebook (MarimoCell, MarimoFunction, MarimoClass,           *)
(* ParsedNotebook).  A cell's code is the decorator line, the def line     *)
(* whose parameters are its refs, its body and the return of its defs.     *)
(***************************************************************************)
RECURSIVE CommaList(_)
CommaList(names) ==
    IF names = << >> THEN << >>
    ELSE IF Len(names) = 1 THEN << names[1] >>
    ELSE << names[1], "," >> \o CommaList(Tail(names))

RECURSIVE TupleElts(_)
TupleElts(names) ==
    IF names = << >> THEN << >> ELSE << names[1], "," >> \o TupleElts(Tail(names))

ReturnLine(defs) ==
    IF defs = << >> THEN L(4, << "return" >>)
    ELSE L(4, << "return", "(" >> \o TupleElts(defs) \o << ")" >>)

CellCode(refs, defs, body) ==
    << L(0, << "@", "app", ".", "cell" >>),
       L(0, << "def", "_", "(" >> \o CommaList(refs) \o << ")", ":" >>) >>
    \o body \o << ReturnLine(defs) >>

MarimoCell(refs, defs, body, start_line) ==
    [ name |-> "_", refs |-> refs, defs |-> defs,
      code |-> CellCode(refs, defs, body),
      start_line |-> start_line,
      end_line |-> start_line + Len(CellCode(refs, defs, body)) - 1 ]

FunctionCode(name) ==
    << L(0, << "@", "app", ".", "function" >>),
       L(0, << "def", name, "(", "x", ")", ":" >>),
       L(4, << "return", "x" >>) >>

MarimoFunction(name, start_line) ==
    [ name |-> name, code |-> FunctionCode(name), start_line |-> start_line,
      end_line |-> start_line + 2 ]

ClassCode(name) ==
    << L(0, << "class", name, ":" >>), L(4, << "pass" >>) >>

MarimoClass(name, start_line) ==
    [ name |-> name, code |-> ClassCode(name), start_line |-> start_line,
      end_line |-> start_line + 1 ]

Preamble ==
    << L(0, << "import", "marimo" >>), BlankLine,
       L(0, << "app", "=", "marimo", ".", "App", "(", ")" >>), BlankLine >>

MainBlock ==
    << L(0, << "if", "__name__", "==", "'__main__'", ":" >>),
       L(4, << "app", ".", "run", "(", ")" >>) >>

\* The declarations are laid out in the file one after the other, a blank
\* line after each: preamble, setup block, functions, classes, cells, entry.
RECURSIVE SumSeq(_)
SumSeq(ns) == IF ns = << >> THEN 0 ELSE ns[1] + SumSeq(Tail(ns))

ParsedNotebook(setup_code, funcNames, classNames, shapes, main_block) ==
    LET setupLen == IF setup_code = << >> THEN 0 ELSE Len(setup_code) + 2
        fStart == Len(Preamble) + setupLen + 1
        cStart == fStart + 4 * Len(funcNames)
        cellStart == cStart + 3 * Len(classNames)
        lens == [ i \in DOMAIN shapes |-> Len(shapes[i].body) + 3 ]
        starts == [ i \in DOMAIN shapes |->
                      cellStart + SumSeq(SubSeq(lens, 1, i - 1)) + (i - 1) ]
    IN  [ preamble |-> Preamble,
          setup_code |-> setup_code,
          functions |-> [ i \in DOMAIN funcNames |->
                            MarimoFunction(funcNames[i], fStart + 4 * (i - 1)) ],
          classes |-> [ i \in DOMAIN classNames |->
                          MarimoClass(classNames[i], cStart + 3 * (i - 1)) ],
          cells |-> [ i \in DOMAIN shapes |->
                        MarimoCell(shapes[i].refs, shapes[i].defs,
                                   shapes[i].body, starts[i]) ],
          main_block |-> main_block ]

Shape(refs, defs, body) == [ refs |-> refs, defs |-> defs, body |-> body ]

Call(lhs, f, args) ==
    L(4, << lhs, "=", f, "(" >> \o CommaList(args) \o << ")" >>)

\* The cell shapes the notebooks of the resolver's specification are made
\* of: a source cell, a cell that cleans df, a cell with two reads (the
\* chain df -> clean_df -> out), a second writer of df that closes a cycle,
\* a cell that reads what it writes, a cell that writes nothing and a cell
\* that writes two names.
CellShapes ==
    { Shape(<< >>, << "df" >>, << Call("df", "load", << >>) >>),
      Shape(<< "df" >>, << "clean_df" >>, << Call("clean_df", "clean", << "df" >>) >>),
      Shape(<< "df", "clean_df" >>, << "out" >>,
            << L(4, << "out", "=", "df", ".", "merge", "(", "clean_df", ")" >>) >>),
      Shape(<< "out" >>, << "df" >>,
            << L(4, << "df", "=", "out", ".", "copy", "(", ")" >>) >>),
      Shape(<< "clean_df" >>, << "clean_df" >>,
            << L(4, << "clean_df", "=", "clean_df", ".", "dropna", "(", ")" >>) >>),
      Shape(<< "df" >>, << >>, << L(4, << "df", ".", "head", "(", ")" >>) >>),
      Shape(<< >>, << "df", "out" >>,
            << Call("df", "load", << >>), Call("out", "summarize", << "df" >>) >>) }

Names == { "df", "clean_df", "out", "clean" }

SetupCode ==
    << L(4, << "import", "pandas", "as", "pd" >>),
       L(4, << "import", "matplotlib.pyplot", "as", "plt" >>) >>

(***************************************************************************)
(* get_required_cells.  Cell indices are Python's: cell number i of the    *)
(* notebook is parsed.cells[i + 1] here.                                   *)
(***************************************************************************)
DictSet(d, k, v) == [ x \in DOMAIN d \cup {k} |-> IF x = k THEN v ELSE d[x] ]

RECURSIVE PutDefs(_, _, _)
PutDefs(d, defs, i) ==
    IF defs = << >> THEN d ELSE PutDefs(DictSet(d, defs[1], i), Tail(defs), i)

RECURSIVE VarToCellFrom(_, _, _)
VarToCellFrom(d, cells, i) ==
    IF i > Len(cells) THEN d
    ELSE VarToCellFrom(PutDefs(d, cells[i].defs, i - 1), cells, i + 1)

\* Faulty variant of VarToCell: the first writer of a name is kept.
RECURSIVE PutDefsOnce(_, _, _)
PutDefsOnce(d, defs, i) ==
    IF defs = << >> THEN d
    ELSE PutDefsOnce(IF defs[1] \in DOMAIN d THEN d ELSE DictSet(d, defs[1], i),
                     Tail(defs), i)

RECURSIVE VarToCellFirstFrom(_, _, _)
VarToCellFirstFrom(d, cells, i) ==
    IF i > Len(cells) THEN d
    ELSE VarToCellFirstFrom(PutDefsOnce(d, cells[i].defs, i - 1), cells, i + 1)

VarToCellFirstWriter(cells) == VarToCellFirstFrom(<< >>, cells, 1)

\* var_to_cell: a later cell overwrites the entry of an earlier one
VarToCell(cells) == VarToCellFrom(<< >>, cells, 1)

FunctionNames(nb) == { nb.functions[i].name : i \in DOMAIN nb.functions }

\* for ref in cell.refs: if ref not in visited_vars: queue.append(ref)
RECURSIVE AppendUnvisited(_, _, _)
AppendUnvisited(q, refs, visited) ==
    IF refs = << >> THEN q
    ELSE AppendUnvisited(IF refs[1] \in visited THEN q ELSE Append(q, refs[1]),
                         Tail(refs), visited)

\* Faulty variant of LoopBody: every cell that writes the variable is retained, not
\* only the recorded writer.
LoopBodyEveryWriter(nb, st) ==
    LET var == Last(st.queue)
        rest == Front(st.queue)
        var_to_cell == VarToCell(nb.cells)
        visited == st.visited_vars \cup {var}
        hasCell == var \in DOMAIN var_to_cell
        cell_idx == var_to_cell[var]
        writers == { i \in 0 .. Len(nb.cells) - 1 : var \in Range(nb.cells[i + 1].defs) }
    IN  IF var \in st.visited_vars
        THEN [ st EXCEPT !.queue = rest ]
        ELSE [ queue |-> IF hasCell
                         THEN AppendUnvisited(rest, nb.cells[cell_idx + 1].refs, visited)
                         ELSE rest,
               visited_vars |-> visited,
               required_indices |-> st.required_indices \cup writers,
               required_functions |-> IF var \in FunctionNames(nb)
                                      THEN st.required_functions \cup {var}
                                      ELSE st.required_functions ]

\* Faulty variant of LoopBody: the refs of the writer are not followed.
LoopBodyTargetsOnly(nb, st) ==
    LET var == Last(st.queue)
        rest == Front(st.queue)
        var_to_cell == VarToCell(nb.cells)
        hasCell == var \in DOMAIN var_to_cell
    IN  IF var \in st.visited_vars
        THEN [ st EXCEPT !.queue = rest ]
        ELSE [ queue |-> rest,
               visited_vars |-> st.visited_vars \cup {var},
               required_indices |-> IF hasCell
                                    THEN st.required_indices \cup {var_to_cell[var]}
                                    ELSE st.required_indices,
               required_functions |-> IF var \in FunctionNames(nb)
                                      THEN st.required_functions \cup {var}
                                      ELSE st.required_functions ]

\* Faulty variant of LoopBody: the popped variable is not recorded as visited.
LoopBodyNoVisited(nb, st) ==
    LET var == Last(st.queue)
        rest == Front(st.queue)
        var_to_cell == VarToCell(nb.cells)
        hasCell == var \in DOMAIN var_to_cell
    IN  [ queue |-> IF hasCell
                    THEN AppendUnvisited(rest, nb.cells[var_to_cell[var] + 1].refs,
                                         st.visited_vars)
                    ELSE rest,
          visited_vars |-> st.visited_vars,
          required_indices |-> IF hasCell
                               THEN st.required_indices \cup {var_to_cell[var]}
                               ELSE st.required_indices,
          required_functions |-> IF var \in FunctionNames(nb)
                                 THEN st.required_functions \cup {var}
                                 ELSE st.required_functions ]

\* one iteration of `while queue:`
LoopBody(nb, st) ==
    LET var == Last(st.queue)
        rest == Front(st.queue)
        var_to_cell == VarToCell(nb.cells)
        visited == st.visited_vars \cup {var}
        hasCell == var \in DOMAIN var_to_cell
        cell_idx == var_to_cell[var]
    IN  IF var \in st.visited_vars
        THEN [ st EXCEPT !.queue = rest ]
        ELSE [ queue |-> IF hasCell
                         THEN AppendUnvisited(rest, nb.cells[cell_idx + 1].refs, visited)
                         ELSE rest,
               visited_vars |-> visited,
               required_indices |-> IF hasCell
                                    THEN st.required_indices \cup {cell_idx}
                                    ELSE st.required_indices,
               required_functions |-> IF var \in FunctionNames(nb)
                                      THEN st.required_functions \cup {var}
                                      ELSE st.required_functions ]

\* Faulty variant of ScanFunctions: the code of every cell of the notebook is scanned.
ScanFunctionsEveryCell(nb, indices, funcs) ==
    funcs \cup { f \in FunctionNames(nb) :
                   \E k \in DOMAIN nb.cells : TextContains(nb.cells[k].code, f) }

\* the pass over the required cells' code for function names
ScanFunctions(nb, indices, funcs) ==
    funcs \cup { f \in FunctionNames(nb) :
                   \E idx \in indices : TextContains(nb.cells[idx + 1].code, f) }

RECURSIVE SortedFrom(_)
SortedFrom(S) ==
    IF S = {} THEN << >>
    ELSE LET m == CHOOSE x \in S : \A y \in S : x <= y
         IN  << m >> \o SortedFrom(S \ {m})

\* Faulty variant of Sorted: the indices in descending order.
RECURSIVE SortedDescending(_)
SortedDescending(S) ==
    IF S = {} THEN << >>
    ELSE LET m == CHOOSE x \in S : \A y \in S : y <= x
         IN  << m >> \o SortedDescending(S \ {m})

\* sorted(required_indices)
Sorted(S) == SortedFrom(S)

(***************************************************************************)
(* prepare_notebook, after get_required_cells returned.                    *)
(***************************************************************************)
\* Faulty variant of PrepareNotebook: the empty result is not rejected.
PrepareNotebookUnchecked(nb, targets, res) ==
    [ ok |-> TRUE,
      parsed |-> nb,
      required_indices |-> res.indices,
      required_functions |-> res.functions,
      target_var |-> IF targets # << >> THEN targets[1] ELSE None ]

PrepareNotebook(nb, targets, res) ==
    IF res.indices = << >>
    THEN [ ok |-> FALSE, message |-> targets ]
    ELSE [ ok |-> TRUE,
           parsed |-> nb,
           required_indices |-> res.indices,
           required_functions |-> res.functions,
           target_var |-> IF targets # << >> THEN targets[1] ELSE None ]

(***************************************************************************)
(* inject_snapshot and _break_method_chain.  Line numbers inside a cell    *)
(* are Python's (0-indexed): line number i is lines[i + 1] here.           *)
(***************************************************************************)
SnapshotName(v) == "_viz_snapshot_" \o v

SnapshotStmt(ind, v) ==
    L(ind, << SnapshotName(v), "=", v, ".", "copy", "(", ")", "if", "hasattr",
              "(", v, ",", "'copy'", ")", "else", v >>)

\* f"{indent}_viz_snapshot_..." where indent is what ^(\s*) matched: the
\* blanks of a line, and for a whitespace-only line its newline too
SnapshotText(line, v) ==
    IF IsBlank(line) THEN << L(line.ind, << >>), SnapshotStmt(0, v) >>
    ELSE << SnapshotStmt(line.ind, v) >>

\* lines.insert(i, ...)
InsertAt(lines, i, new) ==
    SubSeq(lines, 1, i) \o new \o SubSeq(lines, i + 1, Len(lines))

\* ".pipe(" in line or re.search(r"\.\w+\(", line)
IsChainLine(line) ==
    \E i \in 1 .. Len(line.toks) - 2 :
        line.toks[i] = "." /\ IsWord(line.toks[i + 1]) /\ line.toks[i + 2] = "("

\* "=" in line and "==" not in line
HasAssign(line) == LineContains(line, "=") /\ ~ LineContains(line, "==")

ParenDelta(line) == CountTok(line, "(") - CountTok(line, ")")

EndsWithParen(line) == ~ IsBlank(line) /\ Last(line.toks) = ")"

RECURSIVE ParenDepth(_, _, _)
ParenDepth(lines, from, to) ==
    IF to < from THEN 0
    ELSE ParenDepth(lines, from, to - 1) + ParenDelta(lines[to + 1])

BreakMethodChain(lines, target_line_idx, target_var) ==
    LET starts == { i \in 0 .. target_line_idx : HasAssign(lines[i + 1]) }
        chain_start == CHOOSE i \in starts : \A j \in starts : j <= i
        ends == { i \in chain_start .. Len(lines) - 1 :
                    /\ ParenDepth(lines, chain_start, i) <= 0
                    /\ \/ EndsWithParen(lines[i + 1])
                       \/ LineContains(lines[i + 1], "return") }
        chain_end == IF ends = {} THEN target_line_idx
                     ELSE CHOOSE i \in ends : \A j \in ends : i <= j
        rets == { i \in chain_end .. Len(lines) - 1 :
                    LineContains(lines[i + 1], "return") }
        ret == CHOOSE i \in rets : \A j \in rets : i <= j
    IN  IF starts = {} THEN lines
        ELSE IF rets = {} THEN lines
        ELSE InsertAt(lines, ret,
                      << SnapshotStmt(lines[target_line_idx + 1].ind, target_var) >>)

InjectSnapshot(cell_code, target_var, line, cell_start_line) ==
    LET relative_line == line - cell_start_line
    IN  IF relative_line < 0 \/ relative_line >= Len(cell_code) THEN cell_code
        ELSE IF IsChainLine(cell_code[relative_line + 1])
        THEN BreakMethodChain(cell_code, relative_line, target_var)
        ELSE InsertAt(cell_code, relative_line + 1,
                      SnapshotText(cell_code[relative_line + 1], target_var))

(***************************************************************************)
(* Import deduplication.  An import line is a token line such as           *)
(*   import numpy as np         << "import", "numpy", "as", "np" >>        *)
(*   import os.path             << "import", "os.path" >>                  *)
(*   from m import (a, b)       << "from", "m", "import", "(", "a", ",",   *)
(*                                 "b", ")" >>                             *)
(* The tokens of a line are separated by blanks where the source text has  *)
(* them: between words, and around "import", "from" and "as".              *)
(***************************************************************************)
RECURSIVE SplitComma(_)
\* str.split(','), each part a token sequence
SplitComma(toks) ==
    IF \A i \in DOMAIN toks : toks[i] # "," THEN << toks >>
    ELSE LET k == CHOOSE i \in DOMAIN toks :
                      toks[i] = "," /\ \A j \in 1 .. i - 1 : toks[j] # ","
         IN  << SubSeq(toks, 1, k - 1) >> \o SplitComma(SubSeq(toks, k + 1, Len(toks)))

\* The leading \w+ of a token: the token itself when it is a word, the first
\* component of a dotted path, nothing for a punctuation mark.
HasWordPrefix(tok) == IsWord(tok) \/ tok \in DottedToks

WordPrefix(tok) ==
    CASE tok = "os.path" -> "os"
      [] tok = "matplotlib.pyplot" -> "matplotlib"
      [] OTHER -> tok

\* re.match(r'(\w+)(?:\s+as\s+(\w+))?', part): group(2) or group(1)
AliasMatch(part) ==
    IF part = << >> \/ ~ HasWordPrefix(part[1]) THEN << >>
    ELSE IF IsWord(part[1]) /\ Len(part) >= 3 /\ part[2] = "as" /\ HasWordPrefix(part[3])
    THEN << WordPrefix(part[3]) >>
    ELSE << WordPrefix(part[1]) >>

RECURSIVE AliasMatches(_)
AliasMatches(parts) ==
    IF parts = << >> THEN << >>
    ELSE AliasMatch(parts[1]) \o AliasMatches(Tail(parts))

\* _extract_imported_names_from_line, on the tokens of the stripped line
ExtractImportedNamesFromLine(toks) ==
    IF /\ Len(toks) \in {2, 4}
       /\ toks[1] = "import"
       /\ IsWord(toks[2])
       /\ Len(toks) = 4 => (toks[3] = "as" /\ IsWord(toks[4]))
    THEN << toks[Len(toks)] >>
    ELSE IF /\ Len(toks) >= 4
            /\ toks[1] = "from"
            /\ IsDotted(toks[2])
            /\ toks[3] = "import"
    THEN AliasMatches(SplitComma(SubSeq(toks, 4, Len(toks))))
    ELSE << >>

\* stripped.startswith('import ') or stripped.startswith('from ')
IsImportLine(line) ==
    Len(line.toks) >= 2 /\ line.toks[1] \in { "import", "from" }

\* the test that makes strip_imports_from_action_code skip a line
SkipsLine(line, imports) ==
    /\ IsImportLine(line)
    /\ LET imported_names == ExtractImportedNamesFromLine(line.toks)
       IN  /\ \A i \in DOMAIN imported_names : imported_names[i] \in imports
           /\ imported_names # << >>

\* strip_imports_from_action_code; imports is the key set of setup_imports
StripImportsFromActionCode(code, imports) ==
    SelectSeq(code, LAMBDA line : ~ SkipsLine(line, imports))

(***************************************************************************)
(* extract_setup_imports: the names ast finds in the dedented setup code,  *)
(* or what the regular expressions find when it does not parse.            *)
(***************************************************************************)
MinInd(lines) ==
    LET inds == { lines[i].ind : i \in { j \in DOMAIN lines : ~ IsBlank(lines[j]) } }
    IN  IF inds = {} THEN 0 ELSE CHOOSE m \in inds : \A n \in inds : m <= n

\* textwrap.dedent
Dedent(lines) ==
    [ i \in DOMAIN lines |->
        IF IsBlank(lines[i]) THEN BlankLine
        ELSE L(lines[i].ind - MinInd(lines), lines[i].toks) ]

\* ast.parse fails on an unexpected indent: a line indented deeper than the
\* statement before it, which opens no block
ParsesAsModule(lines) ==
    LET code == SelectSeq(lines, LAMBDA line : ~ IsBlank(line))
    IN  /\ code # << >> => code[1].ind = 0
        /\ \A i \in 2 .. Len(code) :
               code[i].ind > code[i - 1].ind => Last(code[i - 1].toks) = ":"

\* alias.asname or alias.name, for each alias of an Import or ImportFrom node
AstAlias(part) ==
    LET core == SelectSeq(part, LAMBDA t : t \notin { "(", ")" })
    IN  IF core = << >> THEN {}
        ELSE IF Len(core) >= 3 /\ core[2] = "as" THEN { core[3] }
        ELSE { core[1] }

AstImportNames(line) ==
    LET toks == line.toks
        aliases == IF Len(toks) >= 2 /\ toks[1] = "import"
                   THEN SplitComma(Tail(toks))
                   ELSE IF Len(toks) >= 4 /\ toks[1] = "from" /\ toks[3] = "import"
                   THEN SplitComma(SubSeq(toks, 4, Len(toks)))
                   ELSE << >>
    IN  UNION { AstAlias(aliases[i]) : i \in DOMAIN aliases }

\* _extract_imports_regex: ^import\s+(\w+)(?:\s+as\s+(\w+))? and
\* ^from\s+[\w.]+\s+import\s+(\w+)(?:\s+as\s+(\w+))? match at column 0 only
RegexImportNames(line) ==
    LET toks == line.toks
    IN  IF line.ind # 0 THEN {}
        ELSE IF Len(toks) >= 2 /\ toks[1] = "import"
        THEN Range(AliasMatch(Tail(toks)))
        ELSE IF /\ Len(toks) >= 4
                /\ toks[1] = "from"
                /\ IsDotted(toks[2])
                /\ toks[3] = "import"
        THEN Range(AliasMatch(SubSeq(toks, 4, Len(toks))))
        ELSE {}

\* the keys of the dict extract_setup_imports returns
ExtractSetupImports(setup_code) ==
    IF ParsesAsModule(Dedent(setup_code))
    THEN UNION { AstImportNames(setup_code[i]) : i \in DOMAIN setup_code }
    ELSE UNION { RegexImportNames(setup_code[i]) : i \in DOMAIN setup_code }

(***************************************************************************)
(* assemble_pruned_notebook.  The program is the concatenation of its      *)
(* parts; each part of the model remembers the section that appended it    *)
(* (and, for a cell, function or class, its index in the notebook).        *)
(***************************************************************************)
Part(sec, idx, lines) == [ sec |-> sec, idx |-> idx, lines |-> lines ]

\* _indent_code(code, "    ")
IndentCode(code) ==
    [ i \in DOMAIN code |->
        IF IsBlank(code[i]) THEN code[i] ELSE L(code[i].ind + 4, code[i].toks) ]

\* the setup lines, prefixed unless they start with four blanks already
IndentSetup(setup_code) ==
    [ i \in DOMAIN setup_code |->
        IF ~ IsBlank(setup_code[i]) /\ setup_code[i].ind < 4
        THEN L(setup_code[i].ind + 4, setup_code[i].toks)
        ELSE setup_code[i] ]

Truthy(line) == line # NoLine /\ line # 0

SetupPart(nb) ==
    IF nb.setup_code = << >> THEN << >>
    ELSE << Part("setup", 0,
                 << BlankLine, L(0, << "with", "app", ".", "setup", ":" >>) >>
                 \o IndentSetup(nb.setup_code) \o << BlankLine >>) >>

ClassParts(nb) ==
    [ i \in DOMAIN nb.classes |->
        Part("class", i - 1, << BlankLine >> \o nb.classes[i].code \o << BlankLine >>) ]

FunctionParts(nb, funcs) ==
    LET all == [ i \in DOMAIN nb.functions |->
                   Part("function", i - 1,
                        << BlankLine >> \o nb.functions[i].code \o << BlankLine >>) ]
    IN  SelectSeq(all, LAMBDA p : nb.functions[p.idx + 1].name \in funcs)

\* Faulty variant of CellCodeFor: the writes of the cell are not looked at.
CellCodeForAnyCovering(cell, var, line) ==
    IF /\ var # None
       /\ Truthy(line)
       /\ cell.start_line <= line
       /\ line <= cell.end_line
    THEN InjectSnapshot(cell.code, var, line, cell.start_line)
    ELSE cell.code

\* the code of one required cell, with the snapshot injected if needed
CellCodeFor(cell, var, line) ==
    IF /\ var # None
       /\ Truthy(line)
       /\ var \in Range(cell.defs)
       /\ cell.start_line <= line
       /\ line <= cell.end_line
    THEN InjectSnapshot(cell.code, var, line, cell.start_line)
    ELSE cell.code

\* Faulty variant of CellParts: every cell of the notebook is emitted.
CellPartsUnpruned(nb, indices, var, line) ==
    [ k \in DOMAIN nb.cells |->
        Part("cell", k - 1,
             << BlankLine >> \o CellCodeFor(nb.cells[k], var, line) \o << BlankLine >>) ]

CellParts(nb, indices, var, line) ==
    [ k \in DOMAIN indices |->
        Part("cell", indices[k],
             << BlankLine >> \o CellCodeFor(nb.cells[indices[k] + 1], var, line)
             \o << BlankLine >>) ]

\* Faulty variant of PlotRefs: the target variable is tried before the snapshot.
PlotRefsTargetFirst(var, line) ==
    IF var # None THEN var
    ELSE IF Truthy(line) THEN SnapshotName(var)
    ELSE "_"

\* the parameter of the synthesized cell
PlotRefs(var, line) ==
    IF var # None /\ Truthy(line) THEN SnapshotName(var)
    ELSE IF var # None THEN var
    ELSE "_"

PlotCell(code, var, line) ==
    Part("plot", 0,
         << BlankLine,
            L(0, << "@", "app", ".", "cell" >>),
            L(0, << "def", "_", "(", PlotRefs(var, line), ")", ":" >>),
            L(4, << "#", "Viz", "skill", "injected", "plotting", "code" >>) >>
         \o IndentCode(code)
         \o << BlankLine, L(4, << "return" >>) >>)

DefaultMain ==
    << L(0, << "if", "__name__", "==", "'__main__'", ":" >>),
       L(4, << "app", ".", "run", "(", ")" >>) >>

MainPart(nb) ==
    Part("main", 0,
         << BlankLine >> \o (IF nb.main_block # << >> THEN nb.main_block ELSE DefaultMain))

\* Faulty variant of AssemblePrunedNotebook: the synthesized cell is appended before
\* the required cells.
AssemblePlotCellFirst(nb, indices, funcs, code, var, line) ==
    LET kept == IF nb.setup_code # << >>
                THEN StripImportsFromActionCode(code, ExtractSetupImports(nb.setup_code))
                ELSE code
    IN  << Part("preamble", 0, nb.preamble) >>
        \o SetupPart(nb)
        \o ClassParts(nb)
        \o FunctionParts(nb, funcs)
        \o << PlotCell(kept, var, line) >>
        \o CellParts(nb, indices, var, line)
        \o << MainPart(nb) >>

AssemblePrunedNotebook(nb, indices, funcs, code, var, line) ==
    LET kept == IF nb.setup_code # << >>
                THEN StripImportsFromActionCode(code, ExtractSetupImports(nb.setup_code))
                ELSE code
    IN  << Part("preamble", 0, nb.preamble) >>
        \o SetupPart(nb)
        \o ClassParts(nb)
        \o FunctionParts(nb, funcs)
        \o CellParts(nb, indices, var, line)
        \o << PlotCell(kept, var, line) >>
        \o << MainPart(nb) >>

\* "".join(parts)
Join(parts) == Flatten([ i \in DOMAIN parts |-> parts[i].lines ])

(***************************************************************************)
(* Specification Spec: a notebook is resolved and assembled, as            *)
(* MarimoHandler.build_script and run_marimo_notebook do it:               *)
(* get_required_cells (one action per iteration of its loop, one for the   *)
(* scan and the return), prepare_notebook, then either the failure of the  *)
(* caller or assemble_pruned_notebook.                                     *)
(***************************************************************************)
NoOutcome == [ kind |-> "none" ]

PlotCode ==
    << L(0, << "import", "matplotlib.pyplot", "as", "plt" >>),
       L(0, << "plt", ".", "plot", "(", "df", ")" >>),
       L(0, << "plt", ".", "show", "(", ")" >>) >>

\* target lists: no name twice (the first one is the target_var of the run)
TargetLists ==
    { t \in SeqsUpTo(Names, MaxTargets) :
        t # << >> /\ \A i, j \in DOMAIN t : t[i] = t[j] => i = j }

\* notebooks of NumCells cells, no two of them alike
Notebooks ==
    { ParsedNotebook(SetupCode, << "clean", "summarize" >>, << >>, shapes, MainBlock) :
        shapes \in { f \in [ 1 .. NumCells -> CellShapes ] :
                        \A i, j \in 1 .. NumCells : f[i] = f[j] => i = j } }

\* --target-line: none, or a line of the file (1-indexed)
LinesOf(nb) ==
    { NoLine } \cup { nb.cells[1].start_line + 2, Last(nb.cells).end_line + 1 }

StripIdle == action_code = << >> /\ setup_imports = {} /\ stripped = << >>

SavefigIdle == script = << >> /\ modified = << >> /\ again = << >>

PythonIdle == pyenv = << >> /\ python_cmd = << >>

RunIdle == fs = {} /\ frames = << >> /\ child = << >> /\ runs = << >> /\ clock = 0

Init ==
    /\ mode = "marimo"
    /\ pc = "loop"
    /\ parsed \in Notebooks
    /\ target_vars \in TargetLists
    /\ target_line = NoLine
    /\ plot_code = PlotCode
    /\ queue = target_vars
    /\ visited_vars = {}
    /\ required_indices = {}
    /\ required_functions = {}
    /\ result = << >>
    /\ prep = << >>
    /\ outcome = NoOutcome
    /\ asm = << >>
    /\ StripIdle
    /\ SavefigIdle
    /\ PythonIdle
    /\ RunIdle

LoopIteration ==
    /\ pc = "loop"
    /\ queue # << >>
    /\ LET st == LoopBody(parsed,
                          [ queue |-> queue, visited_vars |-> visited_vars,
                            required_indices |-> required_indices,
                            required_functions |-> required_functions ])
       IN  /\ queue' = st.queue
           /\ visited_vars' = st.visited_vars
           /\ required_indices' = st.required_indices
           /\ required_functions' = st.required_functions
    /\ UNCHANGED << mode, pc, parsed, target_vars, target_line, plot_code, result,
                    prep, outcome, asm, stripVars, savefigVars, pythonVars, runVars >>

ScanAndReturn ==
    /\ pc = "loop"
    /\ queue = << >>
    /\ required_functions' = ScanFunctions(parsed, required_indices, required_functions)
    /\ result' = [ indices |-> Sorted(required_indices),
                   functions |-> required_functions' ]
    /\ pc' = "prepare"
    /\ UNCHANGED << mode, parsed, target_vars, target_line, plot_code, queue,
                    visited_vars, required_indices, prep, outcome, asm, stripVars,
                    savefigVars, pythonVars, runVars >>

Prepare ==
    /\ pc = "prepare"
    /\ prep' = PrepareNotebook(parsed, target_vars, result)
    /\ pc' = "caller"
    /\ UNCHANGED << mode, parsed, target_vars, target_line, plot_code, queue,
                    visited_vars, required_indices, required_functions, result,
                    outcome, asm, stripVars, savefigVars, pythonVars, runVars >>

\* build_script: raise ValueError(prep[1]); it is called with [target_var]
BuildScriptRaises ==
    /\ pc = "caller"
    /\ ~ prep.ok
    /\ Len(target_vars) = 1
    /\ outcome' = [ kind |-> "ValueError", message |-> prep.message ]
    /\ pc' = "done"
    /\ UNCHANGED << mode, parsed, target_vars, target_line, plot_code, queue,
                    visited_vars, required_indices, required_functions, result,
                    prep, asm, stripVars, savefigVars, pythonVars, runVars >>

\* run_marimo_notebook: return prep[0], prep[1], None
RunMarimoNotebookFails ==
    /\ pc = "caller"
    /\ ~ prep.ok
    /\ outcome' = [ kind |-> "failure", message |-> prep.message ]
    /\ pc' = "done"
    /\ UNCHANGED << mode, parsed, target_vars, target_line, plot_code, queue,
                    visited_vars, required_indices, required_functions, result,
                    prep, asm, stripVars, savefigVars, pythonVars, runVars >>

\* both callers: assemble_pruned_notebook(prep.parsed, prep.required_indices,
\* prep.required_functions, plot_code, prep.target_var, target_line)
Assemble ==
    /\ pc = "caller"
    /\ prep.ok
    /\ \E line \in LinesOf(parsed) :
          /\ target_line' = line
          /\ outcome' = [ kind |-> "script",
                          parts |-> AssemblePrunedNotebook(prep.parsed,
                                        prep.required_indices, prep.required_functions,
                                        plot_code, prep.target_var, line) ]
    /\ pc' = "done"
    /\ UNCHANGED << mode, parsed, target_vars, plot_code, queue, visited_vars,
                    required_indices, required_functions, result, prep, asm,
                    stripVars, savefigVars, pythonVars, runVars >>

Next ==
    \/ LoopIteration
    \/ ScanAndReturn
    \/ Prepare
    \/ BuildScriptRaises
    \/ RunMarimoNotebookFails
    \/ Assemble

Spec == Init /\ [][Next]_vars

(***************************************************************************)
(* The dependency relation of a notebook, stated without the work list:    *)
(* the recorded writer of a name is the last cell whose defs hold it, and  *)
(* the ancestors of the targets are the least set of cells that holds the  *)
(* writers of the targets and the writers of what its members read.        *)
(***************************************************************************)
CellIndices(nb) == 0 .. Len(nb.cells) - 1

Writers(nb, v) == { i \in CellIndices(nb) : v \in Range(nb.cells[i + 1].defs) }

HasWriter(nb, v) == Writers(nb, v) # {}

LastWriter(nb, v) == CHOOSE i \in Writers(nb, v) : \A j \in Writers(nb, v) : j <= i

Reads(nb, i) == Range(nb.cells[i + 1].refs)

WritersOf(nb, vs) == { LastWriter(nb, v) : v \in { w \in vs : HasWriter(nb, w) } }

RECURSIVE Closure(_, _)
Closure(nb, S) ==
    LET T == S \cup WritersOf(nb, UNION { Reads(nb, i) : i \in S })
    IN  IF T = S THEN S ELSE Closure(nb, T)

Ancestors(nb, targets) == Closure(nb, WritersOf(nb, Range(targets)))

StrictlyAscending(s) == \A i, j \in DOMAIN s : i < j => s[i] < s[j]

Returned == pc \in { "prepare", "caller", "done" }

\* C1: get_required_cells returns every transitive ancestor cell of the
\* targets, and the returned index list is strictly ascending.
C1_AncestorsAscending ==
    Returned =>
        /\ Ancestors(parsed, target_vars) \subseteq Range(result.indices)
        /\ StrictlyAscending(result.indices)

\* a run that retained a cell reached only through another cell's reads,
\* and whose work list met a later cell before an earlier one
C1_Witness ==
    /\ Returned
    /\ Len(target_vars) = 1
    /\ HasWriter(parsed, target_vars[1])
    /\ LastWriter(parsed, target_vars[1]) = 2
    /\ result.indices = << 0, 1, 2 >>

ResultSet == Range(result.indices)

\* cell i writes v and reads only names that no cell writes
WritesFromNothing(nb, i, v) ==
    /\ v \in Range(nb.cells[i + 1].defs)
    /\ \A r \in Reads(nb, i) : ~ HasWriter(nb, r)

\* C2, as claimed: in a notebook where cell i writes v and reads only names
\* that no cell writes, resolving [v] yields exactly {i}.
C2_AnyWriterAlone ==
    (Returned /\ Len(target_vars) = 1) =>
        \A i \in CellIndices(parsed) :
            WritesFromNothing(parsed, i, target_vars[1]) => ResultSet = {i}

\* C2, amended: in a notebook where cell i is the last cell that writes v
\* and reads only names that no cell writes, resolving [v] yields exactly
\* the index list [i].
C2_LastWriterAlone ==
    (Returned /\ Len(target_vars) = 1) =>
        \A i \in CellIndices(parsed) :
            ( /\ WritesFromNothing(parsed, i, target_vars[1])
              /\ LastWriter(parsed, target_vars[1]) = i )
            => result.indices = << i >>

\* the last of two writers of the target, reading nothing that is written
C2_Witness ==
    /\ Returned
    /\ Len(target_vars) = 1
    /\ Cardinality(Writers(parsed, target_vars[1])) = 2
    /\ WritesFromNothing(parsed, 2, target_vars[1])
    /\ result.indices = << 2 >>

NoTargetWritten == \A i \in DOMAIN target_vars : ~ HasWriter(parsed, target_vars[i])

\* C3: resolving targets none of which is written by any cell ends in an
\* error that names the targets (prepare_notebook returns (False, message),
\* build_script raises ValueError); prepare_notebook never succeeds with an
\* empty list of required indices.
C3_UnresolvedTargetFails ==
    /\ (pc \in { "caller", "done" } /\ NoTargetWritten) =>
           ~ prep.ok /\ prep.message = target_vars
    /\ (pc = "done" /\ NoTargetWritten) =>
           outcome.kind \in { "ValueError", "failure" } /\ outcome.message = target_vars
    /\ (pc \in { "caller", "done" } /\ prep.ok) => prep.required_indices # << >>
    /\ (pc = "done" /\ outcome.kind = "script") => ~ NoTargetWritten

C3_Witness ==
    /\ pc = "done"
    /\ NoTargetWritten
    /\ outcome.kind = "ValueError"
    /\ result.indices = << >>

\* C4: a cell index is in the result only if the cell is the recorded
\* writer of a target or of a name read by another cell of the result, and
\* no cell outside the ancestors of the targets is retained.
C4_OnlyAncestors ==
    Returned =>
        /\ ResultSet \subseteq Ancestors(parsed, target_vars)
        /\ \A i \in ResultSet :
              \/ i \in WritersOf(parsed, Range(target_vars))
              \/ \E j \in ResultSet \ {i} : i \in WritersOf(parsed, Reads(parsed, j))

\* a resolved run that leaves out a cell writing the very name it resolved
C4_Witness ==
    /\ Returned
    /\ result.indices # << >>
    /\ \E i \in CellIndices(parsed) :
          /\ i \notin ResultSet
          /\ \E k \in DOMAIN target_vars : i \in Writers(parsed, target_vars[k])

RECURSIVE IsSubsequence(_, _)
\* the lines of a occur in b, in order
IsSubsequence(a, b) ==
    IF a = << >> THEN TRUE
    ELSE IF b = << >> THEN FALSE
    ELSE IF a[1] = b[1] THEN IsSubsequence(Tail(a), Tail(b))
    ELSE IsSubsequence(a, Tail(b))

PartsOf(sec) == SelectSeq(outcome.parts, LAMBDA p : p.sec = sec)

Assembled == pc = "done" /\ outcome.kind = "script"

\* C5: the assembled program holds the code of each required cell, in
\* ascending index order, and the code of no other cell.
C5_RequiredCellsOnly ==
    Assembled =>
        LET cells == PartsOf("cell")
        IN  /\ [ k \in DOMAIN cells |-> cells[k].idx ] = prep.required_indices
            /\ StrictlyAscending([ k \in DOMAIN cells |-> cells[k].idx ])
            /\ \A k \in DOMAIN cells :
                  IsSubsequence(parsed.cells[cells[k].idx + 1].code, cells[k].lines)
            /\ \A i \in CellIndices(parsed) :
                  i \notin Range(prep.required_indices) =>
                      \A k \in DOMAIN cells : cells[k].idx # i

\* cells 0 and 2 retained, cell 1 dropped
C5_Witness ==
    /\ Assembled
    /\ prep.required_indices = << 0, 2 >>
    /\ Len(PartsOf("cell")) = 2

(***************************************************************************)
(* Specification SpecAssemble: assemble_pruned_notebook called on its own, *)
(* with a parsed notebook with or without setup block, functions, classes  *)
(* and entry block, any ascending list of required cells, any set of       *)
(* required functions, and target_var and target_line given or not.        *)
(***************************************************************************)
AssembleShapes ==
    << Shape(<< >>, << "df" >>,
             << L(4, << "df", "=", "(" >>),
                L(8, << "load", "(", ")" >>),
                L(8, << ".", "pipe", "(", "clean", ")" >>),
                L(4, << ")" >>) >>),
       Shape(<< "df" >>, << "clean_df" >>,
             << Call("clean_df", "clean", << "df" >>) >>),
       Shape(<< "df", "clean_df" >>, << "out" >>,
             << BlankLine,
                L(4, << "out", "=", "df", ".", "merge", "(", "clean_df", ")" >>) >>) >>

SetupCodes ==
    { << >>,
      SetupCode,
      << L(2, << "import", "pandas", "as", "pd" >>),
         L(2, << "from", "os", "import", "path" >>) >> }

PlotCodes ==
    { PlotCode,
      << L(0, << "from", "os", "import", "path" >>),
         BlankLine,
         L(0, << "print", "(", "df", ")" >>) >> }

AssembleNotebooks ==
    { ParsedNotebook(setup, funcs, classes, AssembleShapes, main) :
        setup \in SetupCodes,
        funcs \in { << >>, << "clean", "summarize" >> },
        classes \in { << >>, << "Model" >> },
        main \in { << >>, MainBlock } }

AscendingLists(nb) ==
    { Sorted(S) : S \in SUBSET CellIndices(nb) }

\* --target-line: none, or a line of the file (1-indexed): the lines of the
\* first cell, the line before it and the line after the last cell
TargetLines(nb) ==
    { NoLine }
    \cup (nb.cells[1].start_line - 1) .. nb.cells[1].end_line
    \cup { Last(nb.cells).end_line + 1 }

ResolverIdle ==
    /\ parsed = << >>
    /\ target_vars = << >>
    /\ target_line = NoLine
    /\ plot_code = << >>
    /\ queue = << >>
    /\ visited_vars = {}
    /\ required_indices = {}
    /\ required_functions = {}
    /\ result = << >>
    /\ prep = << >>

InitAssemble ==
    /\ mode = "assemble"
    /\ pc = "call"
    /\ \E nb \in AssembleNotebooks :
          \E indices \in AscendingLists(nb), line \in TargetLines(nb),
             funcs \in SUBSET FunctionNames(nb), code \in PlotCodes,
             var \in { None, "df", "out" } :
              asm = [ parsed |-> nb, required_indices |-> indices,
                      required_functions |-> funcs, plot_code |-> code,
                      target_var |-> var, target_line |-> line ]
    /\ outcome = NoOutcome
    /\ ResolverIdle
    /\ StripIdle
    /\ SavefigIdle
    /\ PythonIdle
    /\ RunIdle

AssembleCall ==
    /\ mode = "assemble"
    /\ pc = "call"
    /\ outcome' = [ kind |-> "script",
                    parts |-> AssemblePrunedNotebook(asm.parsed, asm.required_indices,
                                  asm.required_functions, asm.plot_code,
                                  asm.target_var, asm.target_line) ]
    /\ pc' = "done"
    /\ UNCHANGED << mode, asm, resolverVars, stripVars, savefigVars, pythonVars, runVars >>

(***************************************************************************)
(* C23.  inject_snapshot called on its own on every cell of the notebook   *)
(* of an assemble call, with that call's target_var and target_line.       *)
(***************************************************************************)
InjectSnapshotCall ==
    /\ mode = "assemble"
    /\ pc = "done"
    /\ asm.target_var # None
    /\ asm.target_line # NoLine
    /\ result' = [ i \in DOMAIN asm.parsed.cells |->
                     InjectSnapshot(asm.parsed.cells[i].code, asm.target_var,
                                    asm.target_line, asm.parsed.cells[i].start_line) ]
    /\ pc' = "snapshot"
    /\ UNCHANGED << mode, asm, outcome, parsed, target_vars, target_line, plot_code,
                    queue, visited_vars, required_indices, required_functions, prep,
                    stripVars, savefigVars, pythonVars, runVars >>

NextAssemble == AssembleCall \/ InjectSnapshotCall

SpecAssemble == InitAssemble /\ [][NextAssemble]_vars

SecRank(sec) ==
    CASE sec = "preamble" -> 1
      [] sec = "setup" -> 2
      [] sec = "class" -> 3
      [] sec = "function" -> 4
      [] sec = "cell" -> 5
      [] sec = "plot" -> 6
      [] sec = "main" -> 7

IdxOf(parts) == [ k \in DOMAIN parts |-> parts[k].idx ]

CellDecorator == L(0, << "@", "app", ".", "cell" >>)

\* the positions of the lines of the program that open a cell
CellStarts(text) == { i \in DOMAIN text : text[i] = CellDecorator }

RequiredFunctionIndices(nb, funcs) ==
    Sorted({ i \in 0 .. Len(nb.functions) - 1 : nb.functions[i + 1].name \in funcs })

AssembleDone == mode = "assemble" /\ pc \in { "done", "snapshot" }

\* C6: the program is, in this order, the preamble, the setup block, all
\* classes, the required functions in source order, the required cells, the
\* synthesized cell and the entry block (the captured one, or a default one
\* calling app.run()); the synthesized cell is the last cell of the program.
C6_SectionOrder ==
    AssembleDone =>
        LET parts == outcome.parts
            nb == asm.parsed
            text == Join(parts)
            plot == PartsOf("plot")
        IN  /\ \A i, j \in DOMAIN parts :
                  i < j => SecRank(parts[i].sec) <= SecRank(parts[j].sec)
            /\ parts[1].sec = "preamble" /\ parts[1].lines = nb.preamble
            /\ Len(PartsOf("setup")) = (IF nb.setup_code = << >> THEN 0 ELSE 1)
            /\ IdxOf(PartsOf("class")) = Sorted(0 .. Len(nb.classes) - 1)
            /\ IdxOf(PartsOf("function"))
                   = RequiredFunctionIndices(nb, asm.required_functions)
            /\ IdxOf(PartsOf("cell")) = asm.required_indices
            /\ Len(plot) = 1
            /\ Last(parts).sec = "main"
            /\ Last(parts).lines =
                   << BlankLine >>
                   \o (IF nb.main_block # << >> THEN nb.main_block
                       ELSE << L(0, << "if", "__name__", "==", "'__main__'", ":" >>),
                               L(4, << "app", ".", "run", "(", ")" >>) >>)
            /\ \E i \in CellStarts(text) :
                  /\ \A j \in CellStarts(text) : j <= i
                  /\ SubSeq(text, i, i + Len(plot[1].lines) - 2) = Tail(plot[1].lines)

\* a program with every kind of section, two retained cells and no
\* captured entry block
C6_Witness ==
    /\ AssembleDone
    /\ asm.parsed.setup_code # << >>
    /\ asm.parsed.classes # << >>
    /\ asm.required_functions = { "clean", "summarize" }
    /\ asm.required_indices = << 0, 2 >>
    /\ asm.parsed.main_block = << >>

\* the def line of the synthesized cell
PlotDefLine == PartsOf("plot")[1].lines[3]

\* C7: the synthesized cell has exactly one parameter: the snapshot
\* variable of target_var when target_var and target_line are both given,
\* else target_var when it is given, else the placeholder _.
C7_PlotCellParameter ==
    AssembleDone =>
        LET var == asm.target_var
            line == asm.target_line
            param == IF var # None /\ line # NoLine THEN "_viz_snapshot_" \o var
                     ELSE IF var # None THEN var
                     ELSE "_"
        IN  PlotDefLine = L(0, << "def", "_", "(", param, ")", ":" >>)

C7_Witness ==
    /\ AssembleDone
    /\ asm.target_var = "df"
    /\ asm.target_line # NoLine
    /\ PlotDefLine.toks[4] = "_viz_snapshot_df"

(***************************************************************************)
(* Specification SpecStrip: strip_imports_from_action_code called on       *)
(* action code of up to MaxActionLines lines with any set of setup-block   *)
(* bindings.                                                               *)
(***************************************************************************)
ActionLines ==
    { L(0, << "import", "numpy", "as", "np" >>),
      L(0, << "import", "numpy" >>),
      L(4, << "import", "numpy" >>),
      L(0, << "import", "os.path" >>),
      L(0, << "import", "os", ",", "numpy" >>),
      L(0, << "from", "os", "import", "path" >>),
      L(0, << "from", "os", "import", "path", ",", "sep" >>),
      L(0, << "from", "os", "import", "(", "path", ",", "sep", ")" >>),
      L(0, << "from", "os", "import", "path", "as", "sep" >>),
      L(0, << "importlib", ".", "reload", "(", "np", ")" >>),
      L(0, << "x", "=", "np", ".", "zeros", "(", "n", ")" >>),
      BlankLine }

BindingNames == { "np", "numpy", "os", "os.path", "path", "sep" }

ResolverUnused == ResolverIdle /\ outcome = NoOutcome /\ asm = << >>

InitStrip ==
    /\ mode = "strip"
    /\ pc = "call"
    /\ action_code \in SeqsUpTo(ActionLines, MaxActionLines) \ { << >> }
    /\ setup_imports \in SUBSET BindingNames
    /\ stripped = << >>
    /\ ResolverUnused
    /\ SavefigIdle
    /\ PythonIdle
    /\ RunIdle

StripCall ==
    /\ mode = "strip"
    /\ pc = "call"
    /\ stripped' = StripImportsFromActionCode(action_code, setup_imports)
    /\ pc' = "done"
    /\ UNCHANGED << mode, action_code, setup_imports, resolverVars, outcome, asm,
                    savefigVars, pythonVars, runVars >>

NextStrip == StripCall

SpecStrip == InitStrip /\ [][NextStrip]_vars

(***************************************************************************)
(* The names an import statement binds, as the setup-block bindings are    *)
(* keyed: the alias when there is one, else the imported name (`import     *)
(* numpy as np` binds np, `import os.path` is keyed os.path, `import a, b` *)
(* binds both, `from m import a, b as c` binds a and c, with or without    *)
(* parentheses around the names).                                          *)
(***************************************************************************)
IsImportStatement(line) ==
    Len(line.toks) >= 2 /\ line.toks[1] \in { "import", "from" }

BoundBy(alias) ==
    IF Len(alias) >= 3 /\ alias[2] = "as" THEN alias[3] ELSE alias[1]

BindsOf(line) ==
    LET toks == SelectSeq(line.toks, LAMBDA t : t \notin { "(", ")" })
        aliases == IF toks[1] = "import" THEN SplitComma(Tail(toks))
                   ELSE SplitComma(SubSeq(toks, 4, Len(toks)))
    IN  { BoundBy(aliases[i]) : i \in DOMAIN aliases }

Redundant(line, bindings) ==
    IsImportStatement(line) /\ BindsOf(line) \subseteq bindings

StripDone == mode = "strip" /\ pc = "done"

\* C8: strip_imports_from_action_code removes an import statement if and
\* only if every name it binds is a key of the setup-block bindings; every
\* other line is kept, unchanged and in order.
C8_RemovesExactlyRedundantImports ==
    StripDone =>
        stripped = SelectSeq(action_code, LAMBDA line : ~ Redundant(line, setup_imports))

(***************************************************************************)
(* inject_savefig.  The pattern, line start then whitespace then one of    *)
(* plt.show() and pyplot.show(), is applied with re.MULTILINE by re.sub,   *)
(* which replaces every match.  The whitespace group also runs over        *)
(* newlines, so group 1 is the whole run of whitespace-only lines before   *)
(* the show call followed by the indentation of its line.                  *)
(***************************************************************************)
PngPath == "'/tmp/viz/plot.png'"

\* f"{indent}{savefig_line}"
SavefigLine(ind) ==
    L(ind, << "plt", ".", "savefig", "(", PngPath, ",", "dpi", "=", "150", ",",
              "bbox_inches", "=", "'tight'", ")" >>)

\* the line starts, after its indentation, with plt.show() or pyplot.show()
IsShowLine(line) ==
    /\ Len(line.toks) >= 5
    /\ line.toks[1] \in { "plt", "pyplot" }
    /\ SubSeq(line.toks, 2, 5) = << ".", "show", "(", ")" >>

\* the number of whitespace-only lines the text starts with
RECURSIVE BlankRun(_)
BlankRun(lines) ==
    IF lines = << >> \/ ~ IsBlank(lines[1]) THEN 0 ELSE 1 + BlankRun(Tail(lines))

\* Faulty variant of Substitute: re.sub(..., count=1), only the first match is replaced.
RECURSIVE SubstituteFirst(_)
SubstituteFirst(lines) ==
    IF lines = << >> THEN << >>
    ELSE LET k == BlankRun(lines)
             run == SubSeq(lines, 1, k)
         IN  IF k < Len(lines) /\ IsShowLine(lines[k + 1])
             THEN run \o << SavefigLine(lines[k + 1].ind) >> \o run
                  \o SubSeq(lines, k + 1, Len(lines))
             ELSE IF k > 0
             THEN run \o SubstituteFirst(SubSeq(lines, k + 1, Len(lines)))
             ELSE << lines[1] >> \o SubstituteFirst(Tail(lines))

\* re.sub(pattern, replacement, script, flags=re.MULTILINE)
RECURSIVE Substitute(_)
Substitute(lines) ==
    IF lines = << >> THEN << >>
    ELSE LET k == BlankRun(lines)
             run == SubSeq(lines, 1, k)
         IN  IF k < Len(lines) /\ IsShowLine(lines[k + 1])
             THEN run \o << SavefigLine(lines[k + 1].ind) >> \o run
                  \o << lines[k + 1] >>
                  \o Substitute(SubSeq(lines, k + 2, Len(lines)))
             ELSE IF k > 0
             THEN run \o Substitute(SubSeq(lines, k + 1, Len(lines)))
             ELSE << lines[1] >> \o Substitute(Tail(lines))

\* script.rstrip(), then the newline that ends its last line
RECURSIVE RStrip(_)
RStrip(lines) ==
    IF lines = << >> THEN << >>
    ELSE IF IsBlank(Last(lines)) THEN RStrip(Front(lines))
    ELSE lines

AutoInjected ==
    << BlankLine, L(0, << "#", "Auto-injected", "by", "viz_runner" >>), SavefigLine(0) >>

\* Faulty variant of InjectSavefig: a text that already holds the savefig
\* statement is returned as it is.
InjectSavefigRedetect(text) ==
    IF \E i \in DOMAIN text : text[i].toks = SavefigLine(0).toks
    THEN text
    ELSE LET subst == Substitute(text)
         IN  IF subst = text
             THEN IF TextContains(text, "matplotlib") \/ TextContains(text, "plt")
                  THEN RStrip(text) \o AutoInjected
                  ELSE subst
             ELSE subst

\* Faulty variant of InjectSavefig: the savefig statement is appended whether
\* or not the text refers to matplotlib.
InjectSavefigAlwaysAppend(text) ==
    LET subst == Substitute(text)
    IN  IF subst = text THEN RStrip(text) \o AutoInjected ELSE subst

InjectSavefig(text) ==
    LET subst == Substitute(text)
    IN  IF subst = text
        THEN IF TextContains(text, "matplotlib") \/ TextContains(text, "plt")
             THEN RStrip(text) \o AutoInjected
             ELSE subst
        ELSE subst

(***************************************************************************)
(* Specification SpecSavefig: inject_savefig called on a script of up to   *)
(* MaxScriptLines lines.                                                   *)
(***************************************************************************)
ScriptLines ==
    { L(0, << "import", "matplotlib.pyplot", "as", "plt" >>),
      L(0, << "x", "=", "1" >>),
      L(0, << "plt", ".", "show", "(", ")" >>),
      L(4, << "plt", ".", "show", "(", ")" >>),
      L(0, << "pyplot", ".", "show", "(", ")" >>),
      L(0, << "fig", ".", "show", "(", ")" >>),
      L(0, << "if", "x", ":", "plt", ".", "show", "(", ")" >>),
      BlankLine,
      L(4, << >>) }

InitSavefig ==
    /\ mode = "savefig"
    /\ pc = "call"
    /\ script \in SeqsUpTo(ScriptLines, MaxScriptLines) \ { << >> }
    /\ modified = << >>
    /\ again = << >>
    /\ ResolverUnused
    /\ StripIdle
    /\ PythonIdle
    /\ RunIdle

InjectSavefigCall ==
    /\ mode = "savefig"
    /\ pc = "call"
    /\ modified' = InjectSavefig(script)
    /\ pc' = "done"
    /\ UNCHANGED << mode, script, again, resolverVars, outcome, asm, stripVars, pythonVars, runVars >>

\* a second pass: inject_savefig(inject_savefig(script, p), p)
InjectSavefigAgain ==
    /\ mode = "savefig"
    /\ pc = "done"
    /\ again' = InjectSavefig(modified)
    /\ pc' = "twice"
    /\ UNCHANGED << mode, script, modified, resolverVars, outcome, asm, stripVars, pythonVars, runVars >>

NextSavefig == InjectSavefigCall \/ InjectSavefigAgain

SpecSavefig == InitSavefig /\ [][NextSavefig]_vars

SavefigDone == mode = "savefig" /\ pc \in { "done", "twice" }

SavefigTwice == mode = "savefig" /\ pc = "twice"

ShowLines(text) == { i \in DOMAIN text : IsShowLine(text[i]) }

IsSavefigLine(line) == line.toks = SavefigLine(0).toks

SavefigLines(text) == { i \in DOMAIN text : IsSavefigLine(text[i]) }

\* C9: on a script with exactly one blocking show call, inject_savefig
\* adds exactly one savefig statement, on the line immediately before the
\* show call and with its indentation; all other lines are unchanged.
C9_OneSavefigRightBeforeShow ==
    SavefigDone =>
        \A j \in ShowLines(script) :
            ShowLines(script) = {j} =>
                modified = InsertAt(script, j - 1, << SavefigLine(script[j].ind) >>)

\* C10, as claimed: on a script with several blocking show calls the
\* savefig statement is inserted before the first one only, so the result
\* holds one savefig statement.
C10_OnlyBeforeFirstShow ==
    (SavefigDone /\ Cardinality(ShowLines(script)) >= 2) =>
        Cardinality(SavefigLines(modified)) = 1

\* the nearest line above line i of the text that is not whitespace-only
PrevCode(text, i) ==
    LET above == { k \in 1 .. i - 1 : ~ IsBlank(text[k]) }
    IN  IF above = {} THEN 0 ELSE CHOOSE k \in above : \A m \in above : m <= k

\* C10, amended: on a script with several blocking show calls a savefig
\* statement is inserted before every one of them, so the result holds as
\* many savefig statements as the script has show calls, each with the
\* indentation of its show call and with no code between the two.
C10_BeforeEveryShow ==
    (SavefigDone /\ Cardinality(ShowLines(script)) >= 2) =>
        /\ Cardinality(SavefigLines(modified)) = Cardinality(ShowLines(script))
        /\ Cardinality(ShowLines(modified)) = Cardinality(ShowLines(script))
        /\ \A i \in ShowLines(modified) :
              /\ PrevCode(modified, i) \in SavefigLines(modified)
              /\ modified[PrevCode(modified, i)].ind = modified[i].ind
        /\ SelectSeq(modified, LAMBDA line : ~ IsSavefigLine(line) /\ ~ IsBlank(line))
               = SelectSeq(script, LAMBDA line : ~ IsBlank(line))

\* three show calls, three savefig statements
C10_Witness ==
    /\ SavefigDone
    /\ Cardinality(ShowLines(script)) = 3
    /\ Cardinality(SavefigLines(modified)) = 3

\* C11, as claimed: on a script with one blocking show call a second pass
\* of inject_savefig over the result of the first changes nothing.
C11_SecondPassAddsNothing ==
    (SavefigTwice /\ Cardinality(ShowLines(script)) = 1) => again = modified

\* C11, amended: inject_savefig does not look for an earlier insertion; on a
\* script with one blocking show call the first pass leaves one savefig
\* statement and a second pass over that result leaves two, still with one
\* show call.
C11_SecondPassAddsAnother ==
    (SavefigTwice /\ Cardinality(ShowLines(script)) = 1) =>
        /\ Cardinality(SavefigLines(modified)) = 1
        /\ Cardinality(SavefigLines(again)) = 2
        /\ Cardinality(ShowLines(again)) = 1
        /\ again # modified

\* two passes over a script with one show call, two savefig statements
C11_Witness ==
    /\ SavefigTwice
    /\ Cardinality(ShowLines(script)) = 1
    /\ Cardinality(SavefigLines(again)) = 2

\* the text refers to the plotting module
RefersToPlotting(text) == TextContains(text, "matplotlib") \/ TextContains(text, "plt")

\* the number of lines of the text up to its last line that is not blank
CodeLen(text) ==
    LET code == { i \in DOMAIN text : ~ IsBlank(text[i]) }
    IN  IF code = {} THEN 0 ELSE CHOOSE i \in code : \A j \in code : j <= i

textVars == << resolverVars, outcome, asm, stripVars, savefigVars >>

TextIdle == ResolverUnused /\ StripIdle /\ SavefigIdle

\* os.environ.get("VIZ_PYTHON_CMD"): absent, empty, blank, or a command
EnvCmds == { None, "", " ", "python3", "uv run python" }

\* shlex.split on the values of EnvCmds
ShlexSplit(s) ==
    CASE s = "python3" -> << "python3" >>
      [] s = "uv run python" -> << "uv", "run", "python" >>
      [] OTHER -> << >>

\* the truth value of a str | None
IsSet(s) == s # None /\ s # ""

UvMarkers == { "pyproject.toml", "uv.lock" }

Cwds == { None, "/proj" }

\* what subprocess.run does with a probe
Probes ==
    { [ raised |-> None, returncode |-> 0 ],
      [ raised |-> None, returncode |-> 1 ],
      [ raised |-> "TimeoutExpired", returncode |-> None ],
      [ raised |-> "FileNotFoundError", returncode |-> None ],
      [ raised |-> "OSError", returncode |-> None ] }

\* Faulty variant of ValidatePythonEnv: the except clause is missing.
ValidatePythonEnvUncaught(probe) ==
    IF probe.raised # None
    THEN [ raised |-> probe.raised, value |-> None ]
    ELSE [ raised |-> None, value |-> probe.returncode = 0 ]

\* validate_python_env: what it returns, and the exception that leaves it
ValidatePythonEnv(probe) ==
    IF probe.raised \in { "TimeoutExpired", "FileNotFoundError", "OSError" }
    THEN [ raised |-> None, value |-> FALSE ]
    ELSE [ raised |-> None, value |-> probe.returncode = 0 ]

ProjectCmd(cwd) == << "uv", "run", "--directory", cwd, "python" >>

SystemCmd == << "python" >>

VizSkillDir == "/skills/viz/code"

FallbackCmd == << "uv", "run", "--directory", VizSkillDir, "python" >>

\* the end of get_python_command: the command returned or the exception
\* raised, and the commands probed on the way
Returns(cmd, probed) == [ raised |-> None, cmd |-> cmd, probed |-> probed ]

Raises(exc, probed) == [ raised |-> exc, cmd |-> None, probed |-> probed ]

\* get_python_command from the system tier on
SystemTier(env, probed) ==
    LET v == ValidatePythonEnv(env.system_probe)
    IN  IF v.raised # None THEN Raises(v.raised, probed \o << SystemCmd >>)
        ELSE IF v.value THEN Returns(SystemCmd, probed \o << SystemCmd >>)
        ELSE Returns(FallbackCmd, probed \o << SystemCmd >>)

\* Faulty variant of GetPythonCommand: the system interpreter is tried before
\* the project environment.
GetPythonCommandSystemFirst(env) ==
    IF IsSet(env.env_cmd) THEN Returns(ShlexSplit(env.env_cmd), << >>)
    ELSE LET v == ValidatePythonEnv(env.system_probe)
         IN  IF v.value THEN Returns(SystemCmd, << SystemCmd >>)
             ELSE IF env.cwd # None /\ env.markers # {}
                     /\ ValidatePythonEnv(env.project_probe).value
             THEN Returns(ProjectCmd(env.cwd), << SystemCmd, ProjectCmd(env.cwd) >>)
             ELSE Returns(FallbackCmd, << SystemCmd >>)

GetPythonCommand(env) ==
    IF IsSet(env.env_cmd) THEN Returns(ShlexSplit(env.env_cmd), << >>)
    ELSE IF env.cwd # None /\ (\E m \in UvMarkers : m \in env.markers)
    THEN LET v == ValidatePythonEnv(env.project_probe)
         IN  IF v.raised # None THEN Raises(v.raised, << ProjectCmd(env.cwd) >>)
             ELSE IF v.value
             THEN Returns(ProjectCmd(env.cwd), << ProjectCmd(env.cwd) >>)
             ELSE SystemTier(env, << ProjectCmd(env.cwd) >>)
    ELSE SystemTier(env, << >>)

\* the environments get_python_command can be called in
PyEnvs ==
    { e \in [ env_cmd : EnvCmds, cwd : Cwds, markers : SUBSET UvMarkers,
              project_probe : Probes, system_probe : Probes ] :
        e.cwd = None => e.markers = {} }

(***************************************************************************)
(* Specification SpecPython: get_python_command called in any environment. *)
(***************************************************************************)
InitPython ==
    /\ mode = "python"
    /\ pc = "call"
    /\ pyenv \in PyEnvs
    /\ python_cmd = << >>
    /\ TextIdle
    /\ RunIdle

GetPythonCommandCall ==
    /\ mode = "python"
    /\ pc = "call"
    /\ python_cmd' = GetPythonCommand(pyenv)
    /\ pc' = "done"
    /\ UNCHANGED << mode, pyenv, textVars, runVars >>

NextPython == GetPythonCommandCall

SpecPython == InitPython /\ [][NextPython]_vars

PythonDone == mode = "python" /\ pc = "done"

\* the probe ran to its end with return code 0
ProbeOk(probe) == probe.raised = None /\ probe.returncode = 0

\* the project tier does not apply or its probe did not succeed
ProjectRejected(env) ==
    \/ env.cwd = None
    \/ env.markers = {}
    \/ ~ ProbeOk(env.project_probe)

SystemRejected(env) == ~ ProbeOk(env.system_probe)

\* C13: with no override, no marker file and a system interpreter whose
\* probe fails (non-zero exit, timeout, interpreter not found),
\* get_python_command returns the fallback command and raises nothing; the
\* system command is the one command it probed.
C13_FallsThroughToFallback ==
    (/\ PythonDone
     /\ ~ IsSet(pyenv.env_cmd)
     /\ pyenv.markers = {}
     /\ SystemRejected(pyenv)) =>
        /\ python_cmd.raised = None
        /\ python_cmd.cmd = FallbackCmd
        /\ python_cmd.probed = << SystemCmd >>

\* the system probe timed out and the fallback came back
C13_Witness ==
    /\ PythonDone
    /\ pyenv.env_cmd = None
    /\ pyenv.markers = {}
    /\ pyenv.system_probe.raised = "TimeoutExpired"
    /\ python_cmd.cmd = FallbackCmd

\* C14: get_python_command returns the first acceptable tier in the order
\* override, project-local, system, fallback: an override is returned with
\* no probe run; the project-local command only with a marker file in the
\* working directory and a successful probe; the system command only with a
\* successful probe; the fallback only when every earlier tier was rejected.
C14_FirstAcceptableTier ==
    PythonDone =>
        /\ python_cmd.raised = None
        /\ IsSet(pyenv.env_cmd) =>
              /\ python_cmd.cmd = ShlexSplit(pyenv.env_cmd)
              /\ python_cmd.probed = << >>
        /\ ~ IsSet(pyenv.env_cmd) =>
              /\ python_cmd.cmd \in { ProjectCmd(pyenv.cwd), SystemCmd, FallbackCmd }
              /\ python_cmd.cmd = ProjectCmd(pyenv.cwd) <=> ~ ProjectRejected(pyenv)
              /\ python_cmd.cmd = SystemCmd <=>
                    ProjectRejected(pyenv) /\ ~ SystemRejected(pyenv)
              /\ python_cmd.cmd = FallbackCmd <=>
                    ProjectRejected(pyenv) /\ SystemRejected(pyenv)

\* both the project and the system probe succeed: the project command wins
C14_Witness ==
    /\ PythonDone
    /\ pyenv.env_cmd = None
    /\ pyenv.markers = { "uv.lock" }
    /\ ProbeOk(pyenv.project_probe)
    /\ ProbeOk(pyenv.system_probe)
    /\ python_cmd.cmd = ProjectCmd("/proj")
    /\ python_cmd.probed = << ProjectCmd("/proj") >>

(***************************************************************************)
(* Python floats.  poll_for_file adds poll_interval to waited and compares *)
(* the sum with max_wait in IEEE 754 binary64.  A non-negative double      *)
(* below 2^7 is written here as a fixed-point number of 68 bits, the bit   *)
(* at index i weighing 2^(i - 1 - FracBits), kept as four limbs of 17      *)
(* bits, least significant first.                                          *)
(***************************************************************************)
FracBits == 60

LimbBits == 17

Limbs == 4

\* the significand of a binary64: 53 bits
Precision == 53

HexDigit(c) ==
    CASE c = "0" -> 0 [] c = "1" -> 1 [] c = "2" -> 2 [] c = "3" -> 3
      [] c = "4" -> 4 [] c = "5" -> 5 [] c = "6" -> 6 [] c = "7" -> 7
      [] c = "8" -> 8 [] c = "9" -> 9 [] c = "a" -> 10 [] c = "b" -> 11
      [] c = "c" -> 12 [] c = "d" -> 13 [] c = "e" -> 14 [] c = "f" -> 15

\* bit i of the double float.hex() prints as 0x1.<frac>p<exp>
DoubleBit(frac, exp, i) ==
    LET top == exp + FracBits + 1
    IN  IF i = top THEN 1
        ELSE IF i < top /\ i >= top - (Precision - 1)
        THEN LET k == top - i - 1
             IN  (HexDigit(frac[(k \div 4) + 1]) \div (2 ^ (3 - (k % 4)))) % 2
        ELSE 0

\* bits lo .. hi of that double, as a number
RECURSIVE DoubleBits(_, _, _, _)
DoubleBits(frac, exp, lo, hi) ==
    IF lo > hi THEN 0
    ELSE DoubleBit(frac, exp, lo) + 2 * DoubleBits(frac, exp, lo + 1, hi)

\* the double float.hex() prints as 0x1.<frac>p<exp>, frac 13 hex digits
Double(frac, exp) ==
    [ j \in 1 .. Limbs |->
        DoubleBits(frac, exp, LimbBits * (j - 1) + 1, LimbBits * j) ]

FloatZero == [ j \in 1 .. Limbs |-> 0 ]

\* bit i of a float
Bit(a, i) == (a[((i - 1) \div LimbBits) + 1] \div (2 ^ ((i - 1) % LimbBits))) % 2

\* the exact sum of two floats, limb by limb with the carry
ExactSum(a, b) ==
    LET base == 2 ^ LimbBits
        s1 == a[1] + b[1]
        s2 == a[2] + b[2] + (s1 \div base)
        s3 == a[3] + b[3] + (s2 \div base)
        s4 == a[4] + b[4] + (s3 \div base)
    IN  << s1 % base, s2 % base, s3 % base, s4 % base >>

\* the index of the leading one (0 for zero)
TopBit(a) ==
    LET ones == { i \in 1 .. Limbs * LimbBits : Bit(a, i) = 1 }
    IN  IF ones = {} THEN 0 ELSE CHOOSE i \in ones : \A j \in ones : j <= i

\* round to 53 significant bits, to nearest, ties to even
RoundNearestEven(a) ==
    LET cut == TopBit(a) - (Precision - 1)
    IN  IF cut <= 1 THEN a
        ELSE LET low(j) == LimbBits * (j - 1) + 1
                 kept == [ j \in 1 .. Limbs |->
                             IF cut <= low(j) THEN a[j]
                             ELSE IF cut > LimbBits * j THEN 0
                             ELSE (a[j] \div (2 ^ (cut - low(j)))) * (2 ^ (cut - low(j))) ]
                 ulp == [ j \in 1 .. Limbs |->
                            IF low(j) <= cut /\ cut <= LimbBits * j
                            THEN 2 ^ (cut - low(j)) ELSE 0 ]
                 half == Bit(a, cut - 1) = 1
                 sticky == \E i \in 1 .. cut - 2 : Bit(a, i) = 1
                 up == half /\ (sticky \/ Bit(a, cut) = 1)
             IN  IF up THEN ExactSum(kept, ulp) ELSE kept

\* x + y on floats
FloatAdd(x, y) == RoundNearestEven(ExactSum(x, y))

\* x < y on floats
FloatLess(x, y) ==
    \E j \in 1 .. Limbs :
        x[j] < y[j] /\ \A k \in j + 1 .. Limbs : x[k] = y[k]

(***************************************************************************)
(* The files of VIZ_DIR.  A file is a pair << name, writer >>, the writer  *)
(* being the invocation that wrote it or whose child wrote it.             *)
(***************************************************************************)
ScriptName(viz_id) == viz_id \o ".py"

\* Faulty variant of PngName: one artifact path for every identifier.
PngNameShared(viz_id) == "plot.png"

PngName(viz_id) == viz_id \o ".png"

JsonName(viz_id) == viz_id \o ".json"

\* Path.exists()
Exists(files, name) == \E f \in files : f[1] = name

\* Path.write_text(): the file is created or replaced
WriteText(files, name, writer) ==
    { f \in files : f[1] # name } \cup { << name, writer >> }

(***************************************************************************)
(* format_module_error.  stderr is a sequence of tokens; the pattern is    *)
(* the phrase, an optional quote, a non-empty run of characters that are   *)
(* not quotes (the module), an optional quote.                             *)
(***************************************************************************)
ModulePhrase == << "ModuleNotFoundError:", "No", "module", "named" >>

Quotes == { "'", "\"" }

\* what [^'"]+ takes from the start of the tokens
RECURSIVE UnquotedRun(_)
UnquotedRun(toks) ==
    IF toks = << >> \/ toks[1] \in Quotes THEN << >>
    ELSE << toks[1] >> \o UnquotedRun(Tail(toks))

\* the module captured when the pattern matches at token i, << >> when it
\* does not match there
ModuleAt(stderr, i) ==
    IF i + 3 > Len(stderr) \/ SubSeq(stderr, i, i + 3) # ModulePhrase THEN << >>
    ELSE LET rest == SubSeq(stderr, i + 4, Len(stderr))
         IN  IF rest # << >> /\ rest[1] \in Quotes
             THEN UnquotedRun(Tail(rest))
             ELSE UnquotedRun(rest)

\* " ".join(python_cmd)
RECURSIVE CmdStr(_)
CmdStr(cmd) ==
    IF cmd = << >> THEN ""
    ELSE IF Len(cmd) = 1 THEN cmd[1]
    ELSE cmd[1] \o " " \o CmdStr(Tail(cmd))

MissingModule(module, cmd_str) ==
    [ kind |-> "MISSING MODULE", module |-> module, python_command |-> cmd_str ]

\* the None that format_module_error returns when nothing matches
NoModuleError == [ kind |-> None ]

\* format_module_error: the message, or None
FormatModuleError(stderr, cmd) ==
    LET hits == { i \in DOMAIN stderr : ModuleAt(stderr, i) # << >> }
    IN  IF hits = {} THEN NoModuleError
        ELSE LET i == CHOOSE k \in hits : \A j \in hits : k <= j
             IN  MissingModule(ModuleAt(stderr, i), CmdStr(cmd))

ScriptFailed(stderr) == [ kind |-> "Script failed", stderr |-> stderr ]

FileCreated == [ kind |-> "File created" ]

TimeoutMessage == [ kind |-> "Timeout waiting for file (process may still be running)" ]

PollResult(success, message) == [ success |-> success, message |-> message ]

\* Faulty variant of ProcessExited: the stderr is never inspected.
ProcessExitedGeneric(proc, cmd) ==
    PollResult(FALSE, ScriptFailed(IF proc.has_stderr THEN proc.stderr ELSE << >>))

\* poll_for_file, lines 1340-1343: the result once process.poll() is not None
ProcessExited(proc, cmd) ==
    LET stderr == IF proc.has_stderr THEN proc.stderr ELSE << >>
        module_error == FormatModuleError(stderr, cmd)
    IN  PollResult(FALSE, IF module_error # NoModuleError THEN module_error
                          ELSE ScriptFailed(stderr))

(***************************************************************************)
(* poll_for_file and the process it watches.  Each invocation i has a      *)
(* frame (the locals of run_plot and of poll_for_file) and a child         *)
(* process.  One tick of the loop is three steps: the loop test with the   *)
(* existence test of the target file, the sleep with the addition to       *)
(* waited, and process.poll().  The child runs on its own: it may save the *)
(* figure and it may exit, at any moment.                                  *)
(***************************************************************************)
NoResult == [ success |-> FALSE, message |-> [ kind |-> None ] ]

NoChild == [ state |-> "none", returncode |-> 0, has_stderr |-> TRUE, stderr |-> << >> ]

Running == [ state |-> "running", returncode |-> 0, has_stderr |-> TRUE, stderr |-> << >> ]

\* what the child wrote to its stderr when it exited
Stderrs ==
    { << >>,
      << "ValueError:", "bad", "value" >>,
      << "Traceback", "ModuleNotFoundError:", "No", "module", "named", "'", "foo", "'" >>,
      << "ModuleNotFoundError:", "No", "module", "named", "\"", "foo.bar", "\"", ";" >>,
      << "ModuleNotFoundError:", "No", "module", "named", "'", "'" >>,
      << "ImportError:", "No", "module", "named", "'", "foo", "'" >> }

\* how a child can end: return code, stderr pipe or none, stderr text
Exits ==
    { [ state |-> "exited", returncode |-> 0, has_stderr |-> TRUE, stderr |-> << >> ],
      [ state |-> "exited", returncode |-> 1, has_stderr |-> FALSE, stderr |-> << >> ] }
    \cup { [ state |-> "exited", returncode |-> 1, has_stderr |-> TRUE, stderr |-> e ] :
             e \in Stderrs }

\* 0.1, 0.2, 3.0 and 30.0 as float.hex() prints them
Float01 == Double(<< "9", "9", "9", "9", "9", "9", "9", "9", "9", "9", "9", "9", "a" >>, -4)

Float02 == Double(<< "9", "9", "9", "9", "9", "9", "9", "9", "9", "9", "9", "9", "a" >>, -3)

Float3 == Double(<< "8", "0", "0", "0", "0", "0", "0", "0", "0", "0", "0", "0", "0" >>, 1)

Float30 == Double(<< "e", "0", "0", "0", "0", "0", "0", "0", "0", "0", "0", "0", "0" >>, 4)

\* the locals of an invocation
Frame(viz_id, has_source, at) ==
    [ pc |-> at, viz_id |-> viz_id, has_source |-> has_source,
      python_cmd |-> << >>, max_wait |-> Float3, poll_interval |-> Float01,
      waited |-> FloatZero, ticks |-> 0, alive_polls |-> 0, seen_exit |-> FALSE,
      result |-> NoResult, returned |-> << >> ]

\* while waited < max_wait: if target_file.exists(): return success
LoopTest(i) ==
    /\ frames[i].pc = "loop"
    /\ frames' =
         [ frames EXCEPT ![i] =
             IF ~ FloatLess(@.waited, @.max_wait)
             THEN [ @ EXCEPT !.pc = "polled", !.result = PollResult(FALSE, TimeoutMessage) ]
             ELSE IF Exists(fs, PngName(@.viz_id))
             THEN [ @ EXCEPT !.pc = "polled", !.result = PollResult(TRUE, FileCreated) ]
             ELSE [ @ EXCEPT !.pc = "sleep" ] ]
    /\ UNCHANGED << fs, child >>

\* time.sleep(poll_interval); waited += poll_interval
Sleep(i) ==
    /\ frames[i].pc = "sleep"
    /\ frames' = [ frames EXCEPT ![i] =
                     [ @ EXCEPT !.pc = "poll",
                                !.waited = FloatAdd(@, frames[i].poll_interval),
                                !.ticks = @ + 1 ] ]
    /\ UNCHANGED << fs, child >>

\* Faulty variant of ProcessPoll: the loop goes on after the process ended.
ProcessPollIgnoresExit(i) ==
    /\ frames[i].pc = "poll"
    /\ frames' =
         [ frames EXCEPT ![i] =
             IF child[i].state = "exited"
             THEN [ @ EXCEPT !.pc = "loop" ]
             ELSE [ @ EXCEPT !.pc = "loop", !.alive_polls = @ + 1 ] ]
    /\ UNCHANGED << fs, child >>

\* if process.poll() is not None: return failure
\* (alive_polls counts the polls that found the process running)
ProcessPoll(i) ==
    /\ frames[i].pc = "poll"
    /\ frames' =
         [ frames EXCEPT ![i] =
             IF child[i].state = "exited"
             THEN [ @ EXCEPT !.pc = "polled", !.seen_exit = TRUE,
                             !.result = ProcessExited(child[i], frames[i].python_cmd) ]
             ELSE [ @ EXCEPT !.pc = "loop", !.alive_polls = @ + 1 ] ]
    /\ UNCHANGED << fs, child >>

\* the child reaches the injected plt.savefig
ChildSavesFigure(i) ==
    /\ child[i].state = "running"
    /\ ~ Exists(fs, PngName(frames[i].viz_id))
    /\ fs' = WriteText(fs, PngName(frames[i].viz_id), i)
    /\ UNCHANGED << frames, child >>

\* the child ends
ChildExits(i) ==
    /\ child[i].state = "running"
    /\ \E e \in Exits : child' = [ child EXCEPT ![i] = e ]
    /\ UNCHANGED << fs, frames >>

(***************************************************************************)
(* Specification SpecPoll: one poll_for_file, with the arguments of its    *)
(* three callers: the defaults, and run_plot without and with a source.    *)
(***************************************************************************)
PollArgs ==
    { [ max_wait |-> Float3, poll_interval |-> Float01 ],
      [ max_wait |-> Float3, poll_interval |-> Float02 ],
      [ max_wait |-> Float30, poll_interval |-> Float02 ] }

InitPoll ==
    /\ mode = "poll"
    /\ pc = "run"
    /\ \E a \in PollArgs, cmd \in { SystemCmd, FallbackCmd } :
          frames = << [ Frame("plot", FALSE, "loop") EXCEPT
                          !.python_cmd = cmd, !.max_wait = a.max_wait,
                          !.poll_interval = a.poll_interval ] >>
    /\ child = << Running >>
    /\ fs = {}
    /\ runs = << >>
    /\ clock = 0
    /\ TextIdle
    /\ PythonIdle

PollLoopTest ==
    /\ mode = "poll"
    /\ LoopTest(1)
    /\ UNCHANGED << mode, pc, runs, clock, textVars, pythonVars >>

PollSleep ==
    /\ mode = "poll"
    /\ Sleep(1)
    /\ UNCHANGED << mode, pc, runs, clock, textVars, pythonVars >>

PollProcess ==
    /\ mode = "poll"
    /\ ProcessPoll(1)
    /\ UNCHANGED << mode, pc, runs, clock, textVars, pythonVars >>

PollChildSaves ==
    /\ mode = "poll"
    /\ ChildSavesFigure(1)
    /\ UNCHANGED << mode, pc, runs, clock, textVars, pythonVars >>

PollChildExits ==
    /\ mode = "poll"
    /\ ChildExits(1)
    /\ UNCHANGED << mode, pc, runs, clock, textVars, pythonVars >>

Poller == PollLoopTest \/ PollSleep \/ PollProcess

NextPoll == PollLoopTest \/ PollSleep \/ PollProcess \/ PollChildSaves \/ PollChildExits

SpecPoll == InitPoll /\ [][NextPoll]_vars

Polled(i) == frames[i].pc = "polled"

\* stderr holds the phrase followed by the quoted module name
NamesMissingModule(proc, name) ==
    /\ proc.has_stderr
    /\ \E k \in DOMAIN proc.stderr :
          /\ k + 6 <= Len(proc.stderr)
          /\ SubSeq(proc.stderr, k, k + 6) = ModulePhrase \o << "'", name, "'" >>

\* stderr does not hold the phrase at all
NoModulePhrase(proc) ==
    \/ ~ proc.has_stderr
    \/ \A k \in DOMAIN proc.stderr :
          k + 3 > Len(proc.stderr) \/ SubSeq(proc.stderr, k, k + 3) # ModulePhrase

\* C15: when the artifact never appears and the process is seen to have
\* exited, a stderr holding "ModuleNotFoundError: No module named 'foo'"
\* gives the missing-module message naming foo and the interpreter command,
\* and a stderr without that phrase gives the 'Script failed' message
\* carrying the raw stderr.
C15_MissingModuleNamed ==
    \A i \in DOMAIN frames :
        (Polled(i) /\ frames[i].seen_exit /\ ~ Exists(fs, PngName(frames[i].viz_id))) =>
            /\ ~ frames[i].result.success
            /\ NamesMissingModule(child[i], "foo") =>
                  frames[i].result.message =
                      MissingModule(<< "foo" >>, CmdStr(frames[i].python_cmd))
            /\ NoModulePhrase(child[i]) =>
                  frames[i].result.message =
                      ScriptFailed(IF child[i].has_stderr THEN child[i].stderr ELSE << >>)

\* the traceback naming foo, under the bundled interpreter
C15_Witness ==
    /\ mode = "poll"
    /\ Polled(1)
    /\ frames[1].seen_exit
    /\ ~ Exists(fs, PngName(frames[1].viz_id))
    /\ NamesMissingModule(child[1], "foo")
    /\ Len(child[1].stderr) = 8
    /\ frames[1].result.message.kind = "MISSING MODULE"
    /\ frames[1].result.message.module = << "foo" >>
    /\ frames[1].result.message.python_command = "uv run --directory /skills/viz/code python"

\* max_wait and poll_interval in tenths
Tenths(x) ==
    CASE x = Float01 -> 1 [] x = Float02 -> 2 [] x = Float3 -> 30 [] x = Float30 -> 300

\* max_wait / poll_interval, rounded up
TickBound(frame) ==
    (Tenths(frame.max_wait) + Tenths(frame.poll_interval) - 1)
        \div Tenths(frame.poll_interval)

\* C16, as claimed: poll_for_file makes at most max_wait / poll_interval
\* (rounded up) ticks.
C16_TicksWithinQuotient ==
    \A i \in DOMAIN frames : frames[i].ticks <= TickBound(frames[i])

\* the result is one of the three outcomes, and the state agrees with it
OneOfThreeOutcomes(i) ==
    LET r == frames[i].result
    IN  \/ /\ r = PollResult(TRUE, FileCreated)
           /\ ~ frames[i].seen_exit
           /\ Exists(fs, PngName(frames[i].viz_id))
        \/ /\ ~ r.success
           /\ r.message.kind \in { "MISSING MODULE", "Script failed" }
           /\ frames[i].seen_exit
           /\ child[i].state = "exited"
        \/ /\ r = PollResult(FALSE, TimeoutMessage)
           /\ ~ frames[i].seen_exit
           /\ frames[i].alive_polls = frames[i].ticks
           /\ ~ FloatLess(frames[i].waited, frames[i].max_wait)

\* C16, amended: every run of poll_for_file makes at most
\* max_wait / poll_interval (rounded up) plus one ticks (waited is a float
\* sum: 151 ticks for 30.0 and 0.2) and ends in one of three outcomes:
\* artifact seen, process exited, timed out; timed out only when every
\* poll found the process running; until it ends the poller always has a
\* next step, and no step of the poller changes the process.
C16_EndsInOneOfThreeOutcomes ==
    /\ [](\A i \in DOMAIN frames :
             /\ frames[i].ticks <= TickBound(frames[i]) + 1
             /\ frames[i].pc \in { "loop", "sleep", "poll", "polled" }
             /\ Polled(i) => OneOfThreeOutcomes(i))
    /\ [][Poller => child' = child]_vars

\* the time-out of run_plot on a notebook: 151 ticks, process still running
C16_Witness ==
    /\ mode = "poll"
    /\ Polled(1)
    /\ frames[1].result = PollResult(FALSE, TimeoutMessage)
    /\ frames[1].ticks = 151
    /\ child[1].state = "running"

\* C17: poll_for_file never returns a failure while the artifact file
\* exists; a process that writes the artifact and exits during the sleep of
\* a tick is reported as success.
C17_NoFailureWhileArtifactExists ==
    \A i \in DOMAIN frames :
        (Polled(i) /\ Exists(fs, PngName(frames[i].viz_id))) => frames[i].result.success

(***************************************************************************)
(* run_plot.  An invocation builds the script with its handler, writes     *)
(* <id>.py, resolves the interpreter, launches the child, polls for        *)
(* <id>.png and, on success, writes <id>.json.  has_source tells the       *)
(* MarimoHandler (source_path given) from the DefaultHandler.              *)
(***************************************************************************)
NotReturned == [ kind |-> "none", success |-> FALSE, message |-> [ kind |-> None ] ]

Return(success, message) == [ kind |-> "return", success |-> success, message |-> message ]

\* an exception that run_plot does not catch
Propagates(exc) == [ kind |-> "raise", success |-> FALSE, message |-> [ kind |-> exc ] ]

\* handler.build_script: MarimoHandler raises ValueError when prepare_notebook
\* fails, DefaultHandler returns the action code
BuildScript(i) ==
    /\ frames[i].pc = "build"
    /\ \E built \in (IF frames[i].has_source THEN BOOLEAN ELSE { TRUE }) :
          frames' = [ frames EXCEPT ![i] =
                        IF built THEN [ @ EXCEPT !.pc = "write" ]
                        ELSE [ @ EXCEPT !.pc = "returned",
                                        !.returned = Return(FALSE, [ kind |-> "ValueError" ]) ] ]
    /\ UNCHANGED << fs, child >>

\* script_path.write_text(inject_savefig(script_content, str(png_path)))
WriteScript(i) ==
    /\ frames[i].pc = "write"
    /\ fs' = WriteText(fs, ScriptName(frames[i].viz_id), i)
    /\ frames' = [ frames EXCEPT ![i].pc = "command" ]
    /\ UNCHANGED child

\* the environments run_plot resolves the interpreter in: no override, the
\* handler's cwd without marker files, the system probe succeeding or (for an
\* invocation running alone) failing
RunEnvs(has_source, alone) ==
    { e \in PyEnvs :
        /\ e.env_cmd = None
        /\ e.cwd = (IF has_source THEN "/proj" ELSE None)
        /\ e.markers = {}
        /\ e.project_probe = [ raised |-> None, returncode |-> 1 ]
        /\ e.system_probe \in { [ raised |-> None, returncode |-> 0 ] } \cup
                               (IF alone THEN { [ raised |-> None, returncode |-> 1 ] } ELSE {}) }

\* python_cmd = get_python_command(cwd)
ResolveCommand(i) ==
    /\ frames[i].pc = "command"
    /\ \E e \in RunEnvs(frames[i].has_source, Len(frames) = 1) :
          frames' = [ frames EXCEPT ![i] =
                        [ @ EXCEPT !.pc = "popen", !.python_cmd = GetPythonCommand(e).cmd ] ]
    /\ UNCHANGED << fs, child >>

\* subprocess.Popen, then the arguments of poll_for_file; Popen raises when
\* the command is not found
Launch(i) ==
    /\ frames[i].pc = "popen"
    /\ \E started \in BOOLEAN :
          IF started
          THEN /\ child' = [ child EXCEPT ![i] = Running ]
               /\ frames' = [ frames EXCEPT ![i] =
                                [ @ EXCEPT !.pc = "loop",
                                           !.max_wait = IF frames[i].has_source
                                                        THEN Float30 ELSE Float3,
                                           !.poll_interval = Float02,
                                           !.waited = FloatZero ] ]
          ELSE /\ child' = child
               /\ frames' = [ frames EXCEPT ![i] =
                                [ @ EXCEPT !.pc = "returned",
                                           !.returned = Propagates("FileNotFoundError") ] ]
    /\ UNCHANGED fs

\* poll_for_file has returned: run_plot keeps its result, not its locals
PollLocalsGone(frame) ==
    [ frame EXCEPT !.waited = FloatZero, !.ticks = 0, !.alive_polls = 0, !.seen_exit = FALSE ]

\* Faulty variant of Finish: the metadata is written whatever the poll said.
FinishAlwaysWrites(i) ==
    /\ frames[i].pc = "polled"
    /\ fs' = WriteText(fs, JsonName(frames[i].viz_id), i)
    /\ frames' = [ frames EXCEPT ![i] =
                     [ PollLocalsGone(@) EXCEPT
                                !.pc = "returned",
                                !.returned = Return(frames[i].result.success,
                                                    frames[i].result.message) ] ]
    /\ UNCHANGED child

\* if result.success: VizMetadata(...).write(); return True, ...
\* return False, result.message, None
Finish(i) ==
    /\ frames[i].pc = "polled"
    /\ fs' = IF frames[i].result.success
             THEN WriteText(fs, JsonName(frames[i].viz_id), i)
             ELSE fs
    /\ frames' = [ frames EXCEPT ![i] =
                     [ PollLocalsGone(@) EXCEPT
                                !.pc = "returned",
                                !.returned =
                                    IF frames[i].result.success
                                    THEN Return(TRUE, [ kind |-> "Plot generated successfully" ])
                                    ELSE Return(FALSE, frames[i].result.message) ] ]
    /\ UNCHANGED child

\* how the child of a run ends
RunExits ==
    { e \in Exits : /\ e.has_stderr
                    /\ IF e.returncode = 0 THEN e.stderr = << >>
                       ELSE NamesMissingModule(e, "foo") /\ Len(e.stderr) = 8 }

ChildExitsRun(i) ==
    /\ child[i].state = "running"
    /\ \E e \in RunExits : child' = [ child EXCEPT ![i] = e ]
    /\ UNCHANGED << fs, frames >>

(***************************************************************************)
(* Specification SpecRunPlot: one run_plot with either handler, or two     *)
(* run_plot invocations of the DefaultHandler with different identifiers   *)
(* running at the same time on the same VIZ_DIR.                           *)
(***************************************************************************)
InitRunPlot ==
    /\ mode = "run"
    /\ pc = "run"
    /\ frames \in { << Frame("a", FALSE, "build") >>,
                    << Frame("a", TRUE, "build") >>,
                    << Frame("a", FALSE, "build"), Frame("a_2", FALSE, "build") >> }
    /\ child = [ i \in DOMAIN frames |-> NoChild ]
    /\ fs = {}
    /\ runs = << >>
    /\ clock = 0
    /\ TextIdle
    /\ PythonIdle

RunRest == << mode, pc, runs, clock, textVars, pythonVars >>

RunBuildScript == mode = "run" /\ UNCHANGED RunRest /\ \E i \in DOMAIN frames : BuildScript(i)

RunWriteScript == mode = "run" /\ UNCHANGED RunRest /\ \E i \in DOMAIN frames : WriteScript(i)

RunResolveCommand ==
    mode = "run" /\ UNCHANGED RunRest /\ \E i \in DOMAIN frames : ResolveCommand(i)

RunLaunch == mode = "run" /\ UNCHANGED RunRest /\ \E i \in DOMAIN frames : Launch(i)

RunLoopTest == mode = "run" /\ UNCHANGED RunRest /\ \E i \in DOMAIN frames : LoopTest(i)

RunSleep == mode = "run" /\ UNCHANGED RunRest /\ \E i \in DOMAIN frames : Sleep(i)

RunProcessPoll == mode = "run" /\ UNCHANGED RunRest /\ \E i \in DOMAIN frames : ProcessPoll(i)

RunFinish == mode = "run" /\ UNCHANGED RunRest /\ \E i \in DOMAIN frames : Finish(i)

RunChildSaves ==
    mode = "run" /\ UNCHANGED RunRest /\ \E i \in DOMAIN frames : ChildSavesFigure(i)

RunChildExits == mode = "run" /\ UNCHANGED RunRest /\ \E i \in DOMAIN frames : ChildExitsRun(i)

NextRunPlot ==
    \/ RunBuildScript
    \/ RunWriteScript
    \/ RunResolveCommand
    \/ RunLaunch
    \/ RunLoopTest
    \/ RunSleep
    \/ RunProcessPoll
    \/ RunFinish
    \/ RunChildSaves
    \/ RunChildExits

SpecRunPlot == InitRunPlot /\ [][NextRunPlot]_vars

(***************************************************************************)
(* C18.  Metadata is written exactly on a successful poll; the script      *)
(* stays on disk on every failure that comes after it was written.         *)
(***************************************************************************)
HasReturned(i) == frames[i].pc = "returned"

OwnScript(i) == << ScriptName(frames[i].viz_id), i >> \in fs

OwnMetadata(i) == << JsonName(frames[i].viz_id), i >> \in fs

BuildFailed(i) == HasReturned(i) /\ frames[i].returned = Return(FALSE, [ kind |-> "ValueError" ])

\* C18: a run_plot invocation has written <id>.json if and only if its poll
\* ended in Success and it returned; when it returns after a missing module,
\* a process error or a timeout (or when Popen raised) there is no metadata
\* and the script <id>.py it wrote is on disk; when the script build failed
\* neither file was written.
C18_MetadataIffPollSuccess ==
    mode = "run" =>
        \A i \in DOMAIN frames :
            /\ OwnMetadata(i) <=> (HasReturned(i) /\ frames[i].result = PollResult(TRUE, FileCreated))
            /\ HasReturned(i) =>
                  /\ frames[i].returned.success <=> frames[i].result.success
                  /\ frames[i].returned.success => frames[i].returned.kind = "return"
                  /\ IF BuildFailed(i)
                     THEN ~ OwnScript(i) /\ ~ OwnMetadata(i)
                     ELSE OwnScript(i)
                  /\ (~ frames[i].returned.success /\ ~ BuildFailed(i)) =>
                        \/ frames[i].returned.kind = "raise"
                        \/ /\ frames[i].returned.message = frames[i].result.message
                           /\ frames[i].result.message.kind \in
                                 { "MISSING MODULE", "Script failed", TimeoutMessage.kind }

\* a notebook run timed out after its 30 seconds: the script is on disk, the
\* metadata is not
C18_Witness ==
    /\ mode = "run"
    /\ Len(frames) = 1
    /\ frames[1].has_source
    /\ HasReturned(1)
    /\ frames[1].returned = Return(FALSE, TimeoutMessage)
    /\ OwnScript(1)
    /\ ~ Exists(fs, JsonName(frames[1].viz_id))

(***************************************************************************)
(* C19.  Two invocations with different identifiers use disjoint paths.    *)
(***************************************************************************)
PathsOf(i) ==
    { ScriptName(frames[i].viz_id), PngName(frames[i].viz_id), JsonName(frames[i].viz_id) }

FilesOf(files, i) == { f \in files : f[1] \in PathsOf(i) }

\* invocation i or its child takes the step
StepOf(i) == frames'[i] # frames[i] \/ child'[i] # child[i]

\* the outcome of invocation i as its own child and its own artifact give it
OutcomeOfOwnRun(i) ==
    LET r == frames[i].result
    IN  \/ r = NoResult
        \/ r = PollResult(TRUE, FileCreated) /\ << PngName(frames[i].viz_id), i >> \in fs
        \/ r = PollResult(FALSE, TimeoutMessage)
        \/ child[i].state = "exited" /\ r = ProcessExited(child[i], frames[i].python_cmd)

\* C19: with two run_plot invocations of different identifiers running at
\* the same time, the script, artifact and metadata paths of one are not
\* paths of the other, every file is at a path of the invocation that wrote
\* it, a step of one invocation or of its child changes neither the files
\* nor the state of the other, and each poll result is the one given by the
\* invocation's own child and own artifact.
C19_NoInterference ==
    /\ [](mode = "run" =>
            \A i, j \in DOMAIN frames :
                /\ i # j => PathsOf(i) \cap PathsOf(j) = {}
                /\ \A f \in fs : f[2] = i => f[1] \in PathsOf(i)
                /\ OutcomeOfOwnRun(i))
    /\ [][mode = "run" =>
            \A i, j \in DOMAIN frames :
                (i # j /\ StepOf(i)) =>
                    /\ FilesOf(fs', j) = FilesOf(fs, j)
                    /\ frames'[j] = frames[j]
                    /\ child'[j] = child[j]]_vars

\* both invocations have returned, one with its plot and metadata and the
\* other with a failure of its child, each with its own script on disk
C19_Witness ==
    /\ mode = "run"
    /\ Len(frames) = 2
    /\ frames[1].viz_id # frames[2].viz_id
    /\ HasReturned(1) /\ HasReturned(2)
    /\ frames[1].returned.success /\ OwnMetadata(1)
    /\ frames[2].returned = Return(FALSE, frames[2].result.message)
    /\ frames[2].result.message.kind = "MISSING MODULE"
    /\ OwnScript(1) /\ OwnScript(2)
    /\ ~ Exists(fs, PngName(frames[2].viz_id))

(***************************************************************************)
(* get_unique_id.  The identifier is a string; the directory is the set of *)
(* files; now is datetime.now() in seconds.                                *)
(***************************************************************************)
MaxRuns == 3

DecimalDigits == << "0", "1", "2", "3", "4", "5", "6", "7", "8", "9" >>

\* str(n) as an f-string formats a non-negative int
RECURSIVE Decimal(_)
Decimal(n) ==
    IF n < 10 THEN DecimalDigits[n + 1]
    ELSE Decimal(n \div 10) \o DecimalDigits[(n % 10) + 1]

\* datetime.now().strftime("viz_%Y%m%d_%H%M%S"), the date left out
Timestamp(now) == "viz_" \o Decimal(now)

\* counter = 2; while (VIZ_DIR / f"{base_id}_{counter}.py").exists(): counter += 1
RECURSIVE NextCounter(_, _, _)
NextCounter(files, base_id, counter) ==
    IF Exists(files, ScriptName(base_id \o "_" \o Decimal(counter)))
    THEN NextCounter(files, base_id, counter + 1)
    ELSE counter

\* Faulty variant of GetUniqueId: the directory is not looked at.
GetUniqueIdUnchecked(suggested_id, files, now) ==
    IF suggested_id = None THEN Timestamp(now) ELSE suggested_id

GetUniqueId(suggested_id, files, now) ==
    LET base_id == IF suggested_id = None THEN Timestamp(now) ELSE suggested_id
    IN  IF ~ Exists(files, ScriptName(base_id))
        THEN base_id
        ELSE base_id \o "_" \o Decimal(NextCounter(files, base_id, 2))

\* args.suggested_id: --id absent or a name
SuggestedIds == { None, "a", "a_2", "_show_temp" }

\* the seconds the runs happen in
Times == 0 .. 1

\* the files in VIZ_DIR after run_plot(viz_id), by how it ended: the script
\* build failed, the poll failed or timed out, the poll succeeded
RunOutcomes == { "ValueError", "failure", "success" }

RunPlotFiles(files, viz_id, writer, how) ==
    LET scripted == WriteText(files, ScriptName(viz_id), writer)
    IN  IF how = "ValueError" THEN files
        ELSE IF how = "failure" THEN scripted
        ELSE WriteText(WriteText(scripted, PngName(viz_id), writer), JsonName(viz_id), writer)

(***************************************************************************)
(* Specification SpecUniqueId: plot runs one after the other, each taking  *)
(* its identifier from get_unique_id, with --clean and show runs between   *)
(* them.  runs lists the plot runs since the directory was last cleaned,   *)
(* frames holds the last call of get_unique_id.                            *)
(***************************************************************************)
InitUniqueId ==
    /\ mode = "ids"
    /\ pc = "main"
    /\ fs = {}
    /\ runs = << >>
    /\ clock = 0
    /\ frames = << >>
    /\ child = << >>
    /\ TextIdle
    /\ PythonIdle

IdsRest == << mode, pc, child, textVars, pythonVars >>

\* handle_standalone_script / handle_marimo_plot
PlotRun ==
    /\ mode = "ids"
    /\ Len(runs) < MaxRuns
    /\ \E suggested_id \in SuggestedIds, how \in RunOutcomes :
          LET final_id == GetUniqueId(suggested_id, fs, clock)
          IN  /\ frames' = << [ suggested_id |-> suggested_id, before |-> fs,
                                now |-> clock, id |-> final_id ] >>
              /\ fs' = RunPlotFiles(fs, final_id, Len(runs) + 1, how)
              /\ runs' = Append(runs, [ id |-> final_id, script |-> how # "ValueError" ])
    /\ UNCHANGED << clock, IdsRest >>

\* handle_clean: every file of VIZ_DIR is unlinked
Clean ==
    /\ mode = "ids"
    /\ fs # {}
    /\ fs' = {}
    /\ runs' = << >>
    /\ UNCHANGED << frames, clock, IdsRest >>

\* show mode: _show_temp.py is written, run and unlinked
ShowRun ==
    /\ mode = "ids"
    /\ fs' = { f \in fs : f[1] # "_show_temp.py" }
    /\ runs' = [ r \in DOMAIN runs |->
                   IF runs[r].id = "_show_temp" THEN [ runs[r] EXCEPT !.script = FALSE ]
                   ELSE runs[r] ]
    /\ UNCHANGED << frames, clock, IdsRest >>

\* a second passes
Tick ==
    /\ mode = "ids"
    /\ clock + 1 \in Times
    /\ clock' = clock + 1
    /\ UNCHANGED << fs, runs, frames, IdsRest >>

NextUniqueId == PlotRun \/ Clean \/ ShowRun \/ Tick

SpecUniqueId == InitUniqueId /\ [][NextUniqueId]_vars

(***************************************************************************)
(* C20.  The identifier is free, the suggestion or its smallest free       *)
(* suffix, and no plot run replaces the script of an earlier one.          *)
(***************************************************************************)
Suffixes == << "_2", "_3", "_4", "_5", "_6" >>

\* the id is the suggestion when its script is absent, else the suggestion
\* with the first suffix whose script is absent
SuggestionOrSmallestFreeSuffix(call) ==
    IF ~ Exists(call.before, call.suggested_id \o ".py")
    THEN call.id = call.suggested_id
    ELSE \E n \in DOMAIN Suffixes :
            /\ call.id = call.suggested_id \o Suffixes[n]
            /\ \A m \in 1 .. n - 1 :
                  Exists(call.before, call.suggested_id \o Suffixes[m] \o ".py")

\* the script a run wrote has not been unlinked since
ScriptOnDisk(r) == runs[r].script

\* C20: the id get_unique_id returned had no script <id>.py in the directory
\* when it was called; with a suggestion it is the suggestion itself if that
\* was free and otherwise the suggestion with the smallest free suffix _2,
\* _3, ...; and of the plot runs made one after the other, those whose
\* script has not been removed have pairwise different ids, each with its
\* own script still on disk.
C20_CollisionFreeId ==
    mode = "ids" =>
        /\ \A c \in DOMAIN frames :
              /\ ~ Exists(frames[c].before, frames[c].id \o ".py")
              /\ frames[c].suggested_id # None => SuggestionOrSmallestFreeSuffix(frames[c])
        /\ \A r1, r2 \in DOMAIN runs :
              (r1 # r2 /\ ScriptOnDisk(r1) /\ ScriptOnDisk(r2)) => runs[r1].id # runs[r2].id
        /\ \A r \in DOMAIN runs :
              ScriptOnDisk(r) => << runs[r].id \o ".py", r >> \in fs

\* the third run asks for a while a.py and a_2.py are on disk, and gets a_3
C20_Witness ==
    /\ mode = "ids"
    /\ Len(runs) = 3
    /\ frames[1].suggested_id = "a"
    /\ frames[1].id = "a_3"
    /\ { "a.py", "a_2.py" } \subseteq { f[1] : f \in frames[1].before }
    /\ \A r \in DOMAIN runs : ScriptOnDisk(r)

(***************************************************************************)
(* C21.  Where the names a retained cell reads are bound in the assembled  *)
(* program.                                                                *)
(***************************************************************************)
\* the cell indices of the assembled program, in the order of emission
EmittedCells == IdxOf(PartsOf("cell"))

\* the names cell i reads that some cell of the notebook writes
BoundReads(nb, i) == { v \in Reads(nb, i) : HasWriter(nb, v) }

\* C21, as claimed: for every retained cell, each variable it reads that is
\* written by some notebook cell is written by a retained cell that is
\* emitted earlier in the assembled program.
C21_ReadsBoundEarlier ==
    Assembled =>
        \A k \in DOMAIN EmittedCells :
            \A v \in BoundReads(parsed, EmittedCells[k]) :
                \E m \in 1 .. k - 1 : EmittedCells[m] \in Writers(parsed, v)

\* C21, amended: for every retained cell, each variable it reads that is
\* written by some notebook cell has its recorded (last) writer among the
\* retained cells of the assembled program; the cells are emitted in the
\* order of the notebook, so that writer comes earlier exactly when it is
\* declared earlier than the reader.
C21_ReadsBoundByRetainedCell ==
    Assembled =>
        \A k \in DOMAIN EmittedCells :
            \A v \in BoundReads(parsed, EmittedCells[k]) :
                \E m \in DOMAIN EmittedCells :
                    /\ EmittedCells[m] = LastWriter(parsed, v)
                    /\ m < k <=> LastWriter(parsed, v) < EmittedCells[k]

\* every name has one writer and no cell reads what it writes, cell 0 reads
\* what cell 1 writes, and both are emitted in that order
C21_Witness ==
    /\ Assembled
    /\ \A v \in Names : Cardinality(Writers(parsed, v)) <= 1
    /\ EmittedCells = << 0, 1 >>
    /\ \E v \in Reads(parsed, 0) : Writers(parsed, v) = { 1 }
    /\ \A v \in Reads(parsed, 1) : ~ HasWriter(parsed, v)

(***************************************************************************)
(* C22.  Where the parameter of the synthesized cell is bound.             *)
(***************************************************************************)
\* the parameter on the def line of the synthesized cell
PlotParameter == PlotDefLine.toks[4]

\* some emitted cell holds the statement that binds the snapshot of v
SnapshotBound(v) ==
    \E k \in DOMAIN PartsOf("cell") :
        \E n \in DOMAIN PartsOf("cell")[k].lines :
            PartsOf("cell")[k].lines[n].toks = SnapshotStmt(0, v).toks

\* C22: the parameter of the synthesized cell is bound by a retained cell
\* of the same program: when it is the snapshot variable, the emitted code
\* of some retained cell holds the statement binding it, whatever the
\* target line; when it is target_var, some retained cell writes target_var.
C22_ParameterBoundByRetainedCell ==
    Assembled =>
        LET var == prep.target_var
        IN  /\ PlotParameter = SnapshotName(var) => SnapshotBound(var)
            /\ PlotParameter = var =>
                  \E k \in DOMAIN EmittedCells : var \in Range(parsed.cells[EmittedCells[k] + 1].defs)

(***************************************************************************)
(* C23.  Snapshot injection changes only the targeted cell.                *)
(***************************************************************************)
\* the cell's line range covers the target line and its writes hold target_var
Targeted(cell) ==
    /\ asm.target_var # None
    /\ asm.target_line # NoLine
    /\ asm.target_var \in Range(cell.defs)
    /\ cell.start_line <= asm.target_line
    /\ asm.target_line <= cell.end_line

\* the part of a cell emitted with its original code
EmittedUnchanged(part) ==
    part.lines = << BlankLine >> \o asm.parsed.cells[part.idx + 1].code \o << BlankLine >>

\* C23: assemble_pruned_notebook emits a retained cell with other code than
\* its original only when the cell's line range covers target_line and its
\* writes include target_var; every other retained cell is emitted
\* unchanged; and inject_snapshot returns its input unchanged when
\* target_line is outside the line span of the cell.
C23_OnlyTargetedCellChanges ==
    /\ AssembleDone =>
          \A k \in DOMAIN PartsOf("cell") :
              LET part == PartsOf("cell")[k]
              IN  ~ Targeted(asm.parsed.cells[part.idx + 1]) => EmittedUnchanged(part)
    /\ (mode = "assemble" /\ pc = "snapshot") =>
          \A i \in DOMAIN asm.parsed.cells :
              LET cell == asm.parsed.cells[i]
              IN  (asm.target_line < cell.start_line \/ asm.target_line > cell.end_line)
                      => result[i] = cell.code

\* three cells retained, the first rewritten and the other two emitted as
\* they are; inject_snapshot on the other two cells is a no-op
C23_Witness ==
    /\ mode = "assemble"
    /\ pc = "snapshot"
    /\ asm.required_indices = << 0, 1, 2 >>
    /\ Targeted(asm.parsed.cells[1])
    /\ ~ EmittedUnchanged(PartsOf("cell")[1])
    /\ EmittedUnchanged(PartsOf("cell")[2])
    /\ EmittedUnchanged(PartsOf("cell")[3])
    /\ result[1] # asm.parsed.cells[1].code
    /\ result[2] = asm.parsed.cells[2].code

(***************************************************************************)
(* _parse_cell.  The node of a cell is a tree of the ast: a node has a     *)
(* kind, a name (the id of a Name, the name of a def) and its child nodes  *)
(* in the order of ast.iter_child_nodes: the value of a Return, the elts   *)
(* of a Tuple, the body of a FunctionDef or an If.                         *)
(***************************************************************************)
MaxStmts == 3

Node(kind, id, children) == [ kind |-> kind, id |-> id, children |-> children ]

NameNode(id) == Node("Name", id, << >>)

TupleNode(elts) == Node("Tuple", "", elts)

ReturnNode(value) == Node("Return", "", value)

\* ast.walk: todo.popleft(), todo.extend(iter_child_nodes(node)), yield node
RECURSIVE Walk(_)
Walk(todo) ==
    IF todo = << >> THEN << >>
    ELSE << Head(todo) >> \o Walk(Tail(todo) \o Head(todo).children)

\* isinstance(stmt, ast.Return) and stmt.value and isinstance(stmt.value, ast.Tuple)
IsTupleReturn(stmt) ==
    /\ stmt.kind = "Return"
    /\ stmt.children # << >>
    /\ stmt.children[1].kind = "Tuple"

\* for elt in stmt.value.elts: if isinstance(elt, ast.Name): defs.append(elt.id)
TupleNames(stmt) ==
    LET elts == stmt.children[1].children
        names == SelectSeq(elts, LAMBDA elt : elt.kind = "Name")
    IN  [ k \in DOMAIN names |-> names[k].id ]

\* refs = [arg.arg for arg in node.args.args if arg.arg != "_"]
ParseCellRefs(args) == SelectSeq(args, LAMBDA arg : arg # "_")

\* the loop over ast.walk(node) that fills defs
ParseCellDefs(node) ==
    LET stmts == Walk(<< node >>)
    IN  Flatten([ k \in DOMAIN stmts |->
                    IF IsTupleReturn(stmts[k]) THEN TupleNames(stmts[k]) ELSE << >> ])

\* the statements a cell body is made of here
CellStmts ==
    { ReturnNode(<< TupleNode(<< NameNode("a") >>) >>),
      ReturnNode(<< TupleNode(<< NameNode("a"), NameNode("b") >>) >>),
      ReturnNode(<< TupleNode(<< NameNode("b"), Node("Constant", "1", << >>) >>) >>),
      ReturnNode(<< >>),
      ReturnNode(<< NameNode("a") >>),
      Node("Assign", "", << NameNode("a"), Node("Constant", "1", << >>) >>),
      Node("FunctionDef", "helper", << ReturnNode(<< TupleNode(<< NameNode("c") >>) >>) >>),
      Node("If", "", << NameNode("flag"),
                        ReturnNode(<< TupleNode(<< NameNode("c") >>) >>) >>) }

CellBodies == SeqsUpTo(CellStmts, MaxStmts) \ { << >> }

(***************************************************************************)
(* Specification SpecParse: _parse_cell called on the node of one cell.    *)
(* frames holds the call: the parameters and the node, then refs and defs. *)
(***************************************************************************)
InitParse ==
    /\ mode = "parse"
    /\ pc = "call"
    /\ \E body \in CellBodies, args \in { << >>, << "flag", "_" >> } :
          frames = << [ args |-> args, node |-> Node("FunctionDef", "_", body),
                        refs |-> << >>, defs |-> << >> ] >>
    /\ fs = {}
    /\ child = << >>
    /\ runs = << >>
    /\ clock = 0
    /\ TextIdle
    /\ PythonIdle

ParseCell ==
    /\ mode = "parse"
    /\ pc = "call"
    /\ frames' = << [ frames[1] EXCEPT !.refs = ParseCellRefs(frames[1].args),
                                       !.defs = ParseCellDefs(frames[1].node) ] >>
    /\ pc' = "done"
    /\ UNCHANGED << mode, fs, child, runs, clock, textVars, pythonVars >>

NextParse == ParseCell

SpecParse == InitParse /\ [][NextParse]_vars

(***************************************************************************)
(* C24.  Which return statements give a cell its writes.                   *)
(***************************************************************************)
\* the tuple-valued returns of the cell, in the order the walk meets them
TupleReturns(node) == SelectSeq(Walk(<< node >>), IsTupleReturn)

\* C24: the writes of a cell are the names of the first tuple-valued return
\* found in the cell body; the names of a later tuple-valued return are not
\* among the writes.
C24_FirstTupleReturnOnly ==
    (mode = "parse" /\ pc = "done") =>
        LET returns == TupleReturns(frames[1].node)
        IN  frames[1].defs = (IF returns = << >> THEN << >> ELSE TupleNames(returns[1]))

(***************************************************************************)
(* C25.  Several cells writing one name.                                   *)
(***************************************************************************)
\* cell i was retained as the recorded writer of a resolved name other than v
ReachedThroughAnother(i, v) ==
    \E w \in visited_vars \ {v} : HasWriter(parsed, w) /\ LastWriter(parsed, w) = i

\* C25: when several cells write a name that get_required_cells resolves,
\* the cell with the highest index among them is retained as its writer,
\* and an earlier cell that also writes it is retained only if it is the
\* recorded writer of another resolved name.
C25_HighestIndexIsTheWriter ==
    Returned =>
        \A v \in visited_vars :
            Cardinality(Writers(parsed, v)) >= 2 =>
                /\ VarToCell(parsed.cells)[v] = LastWriter(parsed, v)
                /\ LastWriter(parsed, v) \in ResultSet
                /\ \A i \in Writers(parsed, v) \ { LastWriter(parsed, v) } :
                      i \in ResultSet => ReachedThroughAnother(i, v)

\* the target has writers 0 and 2; only cell 2 is retained
C25_Witness ==
    /\ Returned
    /\ target_vars = << "df" >>
    /\ Writers(parsed, "df") = { 0, 2 }
    /\ result.indices = << 2 >>
    /\ visited_vars = { "df" }

(***************************************************************************)
(* C26.  The required functions.                                           *)
(***************************************************************************)
\* the name occurs, as a substring, in the code of cell i
OccursInCell(f, i) ==
    \E n \in DOMAIN parsed.cells[i + 1].code :
        \E t \in DOMAIN parsed.cells[i + 1].code[n].toks :
            LET tok == parsed.cells[i + 1].code[n].toks[t]
            IN  tok = f \/ << f, tok >> \in ProperSubstrings

\* C26: the function names get_required_cells returns are exactly the
\* pure-function names that the walk popped as variables or that occur as a
\* substring in the code of a retained cell; a function whose name occurs
\* only in cells that are not retained and that was never popped is not
\* returned.
C26_RequiredFunctionsExact ==
    Returned =>
        \A f \in FunctionNames(parsed) :
            f \in result.functions <=>
                (f \in visited_vars \/ \E i \in ResultSet : OccursInCell(f, i))

\* summarize is called in a cell that is not retained and is left out;
\* clean is retained although no retained cell calls it, being a substring
\* of clean_df
C26_Witness ==
    /\ Returned
    /\ result.functions = { "clean" }
    /\ "clean" \notin visited_vars
    /\ \E i \in CellIndices(parsed) \ ResultSet : OccursInCell("summarize", i)
    /\ \A i \in ResultSet :
          \A n \in DOMAIN parsed.cells[i + 1].code :
              \A t \in DOMAIN parsed.cells[i + 1].code[n].toks :
                  parsed.cells[i + 1].code[n].toks[t] # "clean"

(***************************************************************************)
(* C27.  Termination of get_required_cells.  SpecFair is Spec with the     *)
(* interpreter always taking the next step of the running call.            *)
(***************************************************************************)
SpecFair == Spec /\ WF_vars(Next)

\* the iteration pops a variable that was not visited before
Expands == pc = "loop" /\ queue # << >> /\ Last(queue) \notin visited_vars

\* cells i and j read each other's writes
ReadEachOther(nb, i, j) ==
    /\ i # j
    /\ i \in WritersOf(nb, Reads(nb, j))
    /\ j \in WritersOf(nb, Reads(nb, i))

\* C27: get_required_cells returns for every notebook and target list,
\* cyclic dependencies and cells that read what they write included; an
\* iteration that pops a visited variable expands nothing, one that pops a
\* new variable records it as visited, and the visited set never shrinks,
\* so each variable is expanded at most once.
C27_TerminatesExpandingOnce ==
    /\ <>(pc # "loop")
    /\ [][(pc = "loop" /\ queue # << >>) =>
            /\ visited_vars' = visited_vars \cup { Last(queue) }
            /\ ~ Expands => /\ queue' = Front(queue)
                            /\ required_indices' = required_indices]_vars
    /\ [](Len(queue) <= Cardinality(Names) * Cardinality(Names))

\* a returned run over a notebook with a two-cell cycle and a cell that
\* reads the name it writes, all three retained
C27_Witness ==
    /\ Returned
    /\ result.indices = << 0, 1, 2 >>
    /\ \E i, j \in CellIndices(parsed) : ReadEachOther(parsed, i, j)
    /\ \E i \in CellIndices(parsed) : i \in WritersOf(parsed, Reads(parsed, i))

(***************************************************************************)
(* Specification SpecSession: plot runs of the standalone handler made one *)
(* after the other, each with the identifier get_unique_id gives it, the   *)
(* --clean command between them, and the children of earlier runs, which   *)
(* nothing stops, going on while later runs poll.  runs[i] tells whether   *)
(* the child of run i has reached its savefig.                             *)
(***************************************************************************)
SessionRuns == { 1, 2 }

SessionIds == { "a", "b" }

InitSession ==
    /\ mode = "session"
    /\ pc = "main"
    /\ frames = << >>
    /\ child = << >>
    /\ runs = << >>
    /\ fs = {}
    /\ clock = 0
    /\ TextIdle
    /\ PythonIdle

SessionRest == << mode, pc, clock, textVars, pythonVars >>

NoRunInProgress == \A i \in DOMAIN frames : frames[i].pc = "returned"

\* handle_standalone_script: final_id = get_unique_id(args.suggested_id),
\* then run_plot, whose DefaultHandler builds the script without failing
SessionStartRun ==
    /\ mode = "session"
    /\ NoRunInProgress
    /\ Len(frames) + 1 \in SessionRuns
    /\ \E suggested_id \in SessionIds :
          /\ frames' = Append(frames, Frame(GetUniqueId(suggested_id, fs, clock),
                                            FALSE, "write"))
          /\ runs' = Append(runs, [ suggested_id |-> suggested_id, saved |-> FALSE ])
    /\ child' = Append(child, NoChild)
    /\ UNCHANGED << fs, SessionRest >>

\* handle_clean, run between two plot runs
SessionClean ==
    /\ mode = "session"
    /\ NoRunInProgress
    /\ fs # {}
    /\ fs' = {}
    /\ UNCHANGED << frames, child, runs, SessionRest >>

\* the child of a run, however long ago it was launched, reaches its
\* plt.savefig and writes or replaces the artifact
SessionChildSaves ==
    /\ mode = "session"
    /\ \E i \in DOMAIN frames :
          /\ child[i].state = "running"
          /\ ~ runs[i].saved
          /\ fs' = WriteText(fs, PngName(frames[i].viz_id), i)
          /\ runs' = [ runs EXCEPT ![i].saved = TRUE ]
    /\ UNCHANGED << frames, child, SessionRest >>

SessionWriteScript ==
    mode = "session" /\ UNCHANGED << runs, SessionRest >>
    /\ \E i \in DOMAIN frames : WriteScript(i)

SessionResolveCommand ==
    mode = "session" /\ UNCHANGED << runs, SessionRest >>
    /\ \E i \in DOMAIN frames : ResolveCommand(i)

SessionLaunch ==
    mode = "session" /\ UNCHANGED << runs, SessionRest >>
    /\ \E i \in DOMAIN frames : Launch(i)

SessionLoopTest ==
    mode = "session" /\ UNCHANGED << runs, SessionRest >>
    /\ \E i \in DOMAIN frames : LoopTest(i)

SessionSleep ==
    mode = "session" /\ UNCHANGED << runs, SessionRest >>
    /\ \E i \in DOMAIN frames : Sleep(i)

SessionProcessPoll ==
    mode = "session" /\ UNCHANGED << runs, SessionRest >>
    /\ \E i \in DOMAIN frames : ProcessPoll(i)

SessionFinish ==
    mode = "session" /\ UNCHANGED << runs, SessionRest >>
    /\ \E i \in DOMAIN frames : Finish(i)

SessionChildExits ==
    mode = "session" /\ UNCHANGED << runs, SessionRest >>
    /\ \E i \in DOMAIN frames : ChildExitsRun(i)

NextSession ==
    \/ SessionStartRun
    \/ SessionClean
    \/ SessionChildSaves
    \/ SessionWriteScript
    \/ SessionResolveCommand
    \/ SessionLaunch
    \/ SessionLoopTest
    \/ SessionSleep
    \/ SessionProcessPoll
    \/ SessionFinish
    \/ SessionChildExits

SpecSession == InitSession /\ [][NextSession]_vars

(***************************************************************************)
(* C28.  Whose artifact a Success stands for.                              *)
(***************************************************************************)
\* the poll of run i ends in Success in this step
SeesArtifact(i) ==
    /\ frames[i].result # PollResult(TRUE, FileCreated)
    /\ frames'[i].result = PollResult(TRUE, FileCreated)

\* C28: whenever the poll of a plot run with identifier X ends in Success,
\* the file X.png it saw was written by the process that this run launched,
\* not by the process of another run and not before the launch.
C28_SuccessMeansOwnArtifact ==
    [][mode = "session" =>
          \A i \in DOMAIN frames :
              SeesArtifact(i) => << PngName(frames[i].viz_id), i >> \in fs]_vars

(***************************************************************************)
(* run_show.  Every invocation writes its script to the one path           *)
(* VIZ_DIR/_show_temp.py, runs the interpreter on that path and unlinks    *)
(* it.  The content of the file is told by its writer; ran is the content  *)
(* the interpreter of an invocation read (NotRun before, Missing when the  *)
(* path did not exist).                                                    *)
(***************************************************************************)
ShowTemp == "_show_temp.py"

NotRun == "not run"

Missing == "missing"

Ran(writer) == "script of " \o Decimal(writer)

ShowFrame ==
    [ pc |-> "build", ran |-> NotRun, how |-> "", returned |-> << >> ]

\* what the interpreter finds at the path
ContentOf(files, name) ==
    IF Exists(files, name)
    THEN Ran((CHOOSE f \in files : f[1] = name)[2])
    ELSE Missing

\* handler.build_script, which may raise ValueError: return False, str(e)
ShowBuild(i) ==
    /\ frames[i].pc = "build"
    /\ \E built \in BOOLEAN :
          frames' = [ frames EXCEPT ![i] =
                        IF built THEN [ @ EXCEPT !.pc = "write" ]
                        ELSE [ @ EXCEPT !.pc = "returned", !.how = "ValueError",
                                        !.returned = << FALSE, "ValueError" >> ] ]
    /\ fs' = fs

\* script_path.write_text(script_content)
ShowWrite(i) ==
    /\ frames[i].pc = "write"
    /\ fs' = WriteText(fs, ShowTemp, i)
    /\ frames' = [ frames EXCEPT ![i].pc = "run" ]

\* subprocess.run: the interpreter starts and opens the script, or the
\* command cannot be started and an exception is raised
ShowRunInterpreter(i) ==
    /\ frames[i].pc = "run"
    /\ \E started \in BOOLEAN :
          frames' = [ frames EXCEPT ![i] =
                        IF started
                        THEN [ @ EXCEPT !.pc = "wait", !.ran = ContentOf(fs, ShowTemp) ]
                        ELSE [ @ EXCEPT !.pc = "unlink", !.how = "exception" ] ]
    /\ fs' = fs

\* subprocess.run returns or raises TimeoutExpired; an interpreter that
\* found no script exits with a non-zero code
ShowCompleted(i) ==
    /\ frames[i].pc = "wait"
    /\ \E how \in (IF frames[i].ran = Missing THEN { "nonzero" }
                   ELSE { "exit0", "nonzero", "timeout" }) :
          frames' = [ frames EXCEPT ![i] = [ @ EXCEPT !.pc = "unlink", !.how = how ] ]
    /\ fs' = fs

\* script_path.unlink(missing_ok=True) on each of the four paths, then the return
ShowUnlink(i) ==
    /\ frames[i].pc = "unlink"
    /\ fs' = { f \in fs : f[1] # ShowTemp }
    /\ frames' = [ frames EXCEPT ![i] =
                     [ @ EXCEPT !.pc = "returned",
                                !.returned = << frames[i].how = "exit0", frames[i].how >> ] ]

(***************************************************************************)
(* Specification SpecShow: two run_show invocations at the same time.      *)
(***************************************************************************)
InitShow ==
    /\ mode = "show"
    /\ pc = "main"
    /\ frames = << ShowFrame, ShowFrame >>
    /\ fs = {}
    /\ child = << >>
    /\ runs = << >>
    /\ clock = 0
    /\ TextIdle
    /\ PythonIdle

ShowRest == << mode, pc, child, runs, clock, textVars, pythonVars >>

ShowBuildStep == mode = "show" /\ UNCHANGED ShowRest /\ \E i \in DOMAIN frames : ShowBuild(i)

ShowWriteStep == mode = "show" /\ UNCHANGED ShowRest /\ \E i \in DOMAIN frames : ShowWrite(i)

ShowRunStep ==
    mode = "show" /\ UNCHANGED ShowRest /\ \E i \in DOMAIN frames : ShowRunInterpreter(i)

ShowCompletedStep ==
    mode = "show" /\ UNCHANGED ShowRest /\ \E i \in DOMAIN frames : ShowCompleted(i)

ShowUnlinkStep == mode = "show" /\ UNCHANGED ShowRest /\ \E i \in DOMAIN frames : ShowUnlink(i)

NextShow ==
    \/ ShowBuildStep
    \/ ShowWriteStep
    \/ ShowRunStep
    \/ ShowCompletedStep
    \/ ShowUnlinkStep

SpecShow == InitShow /\ [][NextShow]_vars

(***************************************************************************)
(* C29.  Which script a run_show invocation executes, and the removal of   *)
(* the temporary file.                                                     *)
(***************************************************************************)
\* C29, first half: the script an invocation passes to the interpreter
\* exists and holds the content that the invocation wrote.
RunsOwnScript == \A i \in DOMAIN frames : frames[i].ran \in { NotRun, Ran(i) }

\* C29, second half: an invocation that wrote the script has, on return,
\* unlinked the path on whichever path it left; once every invocation has
\* returned the file is gone.
ScriptRemoved ==
    (\A i \in DOMAIN frames : frames[i].pc = "returned") => ~ Exists(fs, ShowTemp)

\* C29: under every interleaving of two run_show invocations each one
\* executes the script it built itself, and the temporary script file is
\* removed on every exit path.
C29_RunsOwnScriptAndRemovesIt ==
    mode = "show" => (RunsOwnScript /\ ScriptRemoved)

(***************************************************************************)
(* scribe: entry.py.  The scribe directory is a set of << name, content >> *)
(* pairs; the content of a log file is its sequence of lines (every write  *)
(* of the commands ends the text with a newline).  A line is told by the   *)
(* pattern of entry.py it matches: a header `## HH:MM — Title`, an id      *)
(* comment `<!-- id: ... -->` whose id is made of digits and dashes, a     *)
(* blank line, or any other text.                                          *)
(***************************************************************************)
MaxCommands == 4

\* datetime.now().strftime("%Y-%m-%d"), the same for the whole day
Today == "2026-11-05"

LogName == Today \o ".md"

Line(kind, hh, mm, text) == [ kind |-> kind, hh |-> hh, mm |-> mm, text |-> text ]

HeaderLine(hh, mm, title) == Line("header", hh, mm, title)

TextLine(text) == Line("text", "", "", text)

EmptyLine == Line("blank", "", "", "")

\* f"<!-- id: {entry_id} -->": with entry_id None the text is
\* `<!-- id: None -->`, which the pattern [\d-]+ does not match
IdComment(entry_id) ==
    IF entry_id = None THEN TextLine("<!-- id: None -->")
    ELSE Line("id", "", "", entry_id)

ReadText(files, name) == (CHOOSE f \in files : f[1] = name)[2]

\* id_pattern.findall(content)
FindAllIds(content) ==
    LET ids == SelectSeq(content, LAMBDA l : l.kind = "id")
    IN  [ k \in DOMAIN ids |-> ids[k].text ]

\* get_existing_ids
GetExistingIds(files, log_file) ==
    IF ~ Exists(files, log_file) THEN {}
    ELSE Range(FindAllIds(ReadText(files, log_file)))

\* f"{suffix:02d}"
Pad2(n) == IF n < 10 THEN "0" \o Decimal(n) ELSE Decimal(n)

\* while f"{base_id}-{suffix:02d}" in existing_ids: suffix += 1
RECURSIVE WhileTaken(_, _, _)
WhileTaken(base_id, existing_ids, suffix) ==
    IF (base_id \o "-" \o Pad2(suffix)) \in existing_ids
    THEN WhileTaken(base_id, existing_ids, suffix + 1)
    ELSE suffix

\* Faulty variant of GenerateEntryId: the base id, whatever the file holds.
GenerateBaseId(files, log_file, hh, mm) == Today \o "-" \o hh \o "-" \o mm

\* generate_entry_id; time_str is hh:mm
GenerateEntryId(files, log_file, hh, mm) ==
    LET base_id == Today \o "-" \o hh \o "-" \o mm
        existing_ids == GetExistingIds(files, log_file)
    IN  IF base_id \notin existing_ids THEN base_id
        ELSE base_id \o "-" \o Pad2(WhileTaken(base_id, existing_ids, 2))

\* the lines of a text that match the header pattern
HeaderMatches(lines) == { i \in DOMAIN lines : lines[i].kind = "header" }

Smallest(S) == CHOOSE i \in S : \A j \in S : i <= j

Largest(S) == CHOOSE i \in S : \A j \in S : j <= i

\* inject_entry_id
InjectEntryId(entry, entry_id) ==
    IF HeaderMatches(entry) = {}
    THEN << IdComment(entry_id) >> \o entry
    ELSE LET h == Smallest(HeaderMatches(entry))
         IN  SubSeq(entry, 1, h) \o << IdComment(entry_id) >>
                 \o SubSeq(entry, h + 1, Len(entry))

\* str.strip() / str.rstrip() on lines: blank lines at the ends go
RECURSIVE RStripLines(_)
RStripLines(lines) ==
    IF lines # << >> /\ lines[Len(lines)].kind = "blank"
    THEN RStripLines(SubSeq(lines, 1, Len(lines) - 1))
    ELSE lines

RECURSIVE LStripLines(_)
LStripLines(lines) ==
    IF lines # << >> /\ lines[1].kind = "blank"
    THEN LStripLines(Tail(lines))
    ELSE lines

StripLines(lines) == LStripLines(RStripLines(lines))

NotFound == [ found |-> FALSE, entry_id |-> None, start_pos |-> 0 ]

\* find_latest_entry with the log file of the day as the only log file:
\* the entry runs from the last header to the end of the file and its id
\* is the first id comment in it
FindLatestEntry(files) ==
    IF ~ Exists(files, LogName) THEN NotFound
    ELSE LET content == ReadText(files, LogName)
         IN  IF HeaderMatches(content) = {} THEN NotFound
             ELSE LET start_pos == Largest(HeaderMatches(content))
                      ids == FindAllIds(SubSeq(content, start_pos, Len(content)))
                  IN  [ found |-> TRUE,
                        entry_id |-> IF ids = << >> THEN None ELSE ids[1],
                        start_pos |-> start_pos ]

\* log_file.write_text(f"# {today}\n\n---\n\n")
NewLog == << TextLine("# " \o Today), EmptyLine, TextLine("---"), EmptyLine >>

\* what a command leaves: the directory, the id it printed, its exit
Left(files, entry_id, exit) == [ files |-> files, entry_id |-> entry_id, exit |-> exit ]

\* cmd_write on the text of stdin
CmdWrite(files, stdin) ==
    LET entry == StripLines(stdin)
    IN  IF entry = << >> \/ HeaderMatches(entry) = {}
        THEN Left(files, None, 1)
        ELSE LET h == entry[Smallest(HeaderMatches(entry))]
                 entry_id == GenerateEntryId(files, LogName, h.hh, h.mm)
                 entry_with_id == InjectEntryId(entry, entry_id)
                 content == IF Exists(files, LogName)
                            THEN ReadText(files, LogName) ELSE NewLog
             IN  Left(WriteText(files, LogName, content \o entry_with_id), entry_id, 0)

\* cmd_edit_latest_delete
CmdEditLatestDelete(files) ==
    LET latest == FindLatestEntry(files)
    IN  IF ~ latest.found THEN Left(files, None, 0)
        ELSE LET content == ReadText(files, LogName)
                 new_content == RStripLines(SubSeq(content, 1, latest.start_pos - 1))
             IN  Left(WriteText(files, LogName, new_content), latest.entry_id, 0)

\* cmd_edit_latest_replace on the text of stdin
CmdEditLatestReplace(files, stdin) ==
    LET latest == FindLatestEntry(files)
        new_entry == StripLines(stdin)
    IN  IF ~ latest.found THEN Left(files, None, 0)
        ELSE IF new_entry = << >> \/ HeaderMatches(new_entry) = {}
        THEN Left(files, None, 1)
        ELSE LET content == ReadText(files, LogName)
                 new_content == SubSeq(content, 1, latest.start_pos - 1)
                                    \o InjectEntryId(new_entry, latest.entry_id)
             IN  Left(WriteText(files, LogName, new_content), latest.entry_id, 0)

\* entries piped to the commands, none of them with an id comment: one
\* header, a header with a body, text before the header, blank lines
\* around, two headers, no header, nothing
Entries ==
    { << HeaderLine("10", "30", "A") >>,
      << HeaderLine("10", "30", "A"), TextLine("body") >>,
      << HeaderLine("10", "31", "B"), EmptyLine, TextLine("body") >>,
      << TextLine("intro"), HeaderLine("10", "30", "A") >>,
      << EmptyLine, HeaderLine("10", "31", "B"), EmptyLine >>,
      << HeaderLine("10", "30", "A"), TextLine("body"), HeaderLine("10", "31", "B") >>,
      << TextLine("no header") >>,
      << >> }

(***************************************************************************)
(* Specification SpecScribe: commands of one day, one after the other.     *)
(* frames holds the last command with the directory it found.              *)
(***************************************************************************)
InitScribe ==
    /\ mode = "scribe"
    /\ pc = "main"
    /\ fs = {}
    /\ frames = << >>
    /\ child = << >>
    /\ runs = << >>
    /\ clock = 0
    /\ TextIdle
    /\ PythonIdle

ScribeRest == << mode, pc, child, runs, textVars, pythonVars >>

Command(cmd, stdin, left) ==
    /\ clock < MaxCommands
    /\ clock' = clock + 1
    /\ frames' = << [ cmd |-> cmd, stdin |-> stdin, before |-> fs,
                      entry_id |-> left.entry_id, exit |-> left.exit ] >>
    /\ fs' = left.files
    /\ UNCHANGED ScribeRest

Write ==
    /\ mode = "scribe"
    /\ \E stdin \in Entries : Command("write", stdin, CmdWrite(fs, stdin))

EditLatestDelete ==
    /\ mode = "scribe"
    /\ Command("delete", << >>, CmdEditLatestDelete(fs))

EditLatestReplace ==
    /\ mode = "scribe"
    /\ \E stdin \in Entries : Command("replace", stdin, CmdEditLatestReplace(fs, stdin))

NextScribe == Write \/ EditLatestDelete \/ EditLatestReplace

SpecScribe == InitScribe /\ [][NextScribe]_vars

(***************************************************************************)
(* C30.  Entry ids of the day's log file.                                  *)
(***************************************************************************)
IdsOf(files) ==
    IF Exists(files, LogName) THEN FindAllIds(ReadText(files, LogName)) ELSE << >>

PairwiseDistinct(ids) == \A i, j \in DOMAIN ids : ids[i] = ids[j] => i = j

Did(cmd) == frames # << >> /\ frames[1].cmd = cmd /\ frames[1].exit = 0

\* the base id of the entry a write was given, and the suffixed ids
BaseIdOf(stdin) ==
    LET entry == StripLines(stdin)
        h == entry[Smallest(HeaderMatches(entry))]
    IN  Today \o "-" \o h.hh \o "-" \o h.mm

FreeId(base_id, taken) ==
    IF base_id \notin taken THEN base_id
    ELSE LET free == { n \in 2 .. (Cardinality(taken) + 2) :
                          (base_id \o "-" \o Pad2(n)) \notin taken }
         IN  base_id \o "-" \o Pad2(Smallest(free))

\* C30: after any sequence of write, edit-latest delete and edit-latest
\* replace on one day the entry ids in the day's log file are pairwise
\* distinct; a write gives the new entry an id that was not in the file (the
\* base id, else the base id with the first free zero-padded suffix), and a
\* replace keeps the id of the entry it replaces.
C30_EntryIdsDistinct ==
    mode = "scribe" =>
        /\ PairwiseDistinct(IdsOf(fs))
        /\ Did("write") =>
              /\ frames[1].entry_id \notin Range(IdsOf(frames[1].before))
              /\ frames[1].entry_id =
                     FreeId(BaseIdOf(frames[1].stdin), Range(IdsOf(frames[1].before)))
              /\ IdsOf(fs) = Append(IdsOf(frames[1].before), frames[1].entry_id)
        /\ (Did("replace") /\ FindLatestEntry(frames[1].before).found) =>
              IdsOf(fs) = IdsOf(frames[1].before)

\* the last of MaxCommands commands is a write at a time of day whose base
\* id is in the file: it got the suffix -02, the file holds two ids
C30_Witness ==
    /\ mode = "scribe"
    /\ Did("write")
    /\ frames[1].entry_id = Today \o "-10-30-02"
    /\ Len(IdsOf(fs)) = 2
    /\ clock = MaxCommands

====
